---- MODULE Spec2Model ----
(***************************************************************************)
(* The core lifecycle engine of vault/core.go: unseal by key shares, seal, *)
(* shutdown, step-down and the HA standby loop of a fleet of cores that    *)
(* share one HA backend lock.                                              *)
(***************************************************************************)
EXTENDS Integers, Sequences, FiniteSets, TLC

\* ------------------------------------------------------------------ bounds

\* unlock sessions (nonces) a core may open
MaxNonce == 2
\* standby loops (HA unseals) a core may start
MaxGen == 2
\* leader uuids the fleet may generate
MaxUuid == 2
MaxShutdown == 1

\* ------------------------------------------------------ scaled constants

\* the prime field the model's Shamir split works in (the library uses GF(2^8))
FieldP == 5
\* barrier.KeyLength(): the shortest and the longest master key
KeyLenMin == 1
KeyLenMax == 1
\* shamir.ShareOverhead: the x coordinate appended to a share
ShareOverhead == 1

Node == {"n1", "n2"}
Gen == 1..MaxGen
Uuid == 1..MaxUuid

\* the master key the barrier was initialized with
MasterKey == <<3>>

NoConfig == [secret_shares |-> 0, secret_threshold |-> 0]
NoSession == [Parts |-> <<>>, Nonce |-> 0]
NoKey == <<-1>>

VARIABLES
    sealConfig,      \* the persisted seal configuration (NoConfig: not initialized)
    ha,              \* c.ha != nil
    nodes,           \* the cores of the fleet
    keys,            \* the key shares the operators submit
    traceAuth,       \* last records the calls of Seal and StepDown too
    sealed,          \* c.sealed
    standby,         \* c.standby
    unlockInfo,      \* c.unlockInfo (NoSession: nil)
    nonceCtr,        \* nonces generated so far by the core
    barrierSealed,   \* the barrier holds no keyring
    subsystemsUp,    \* post-unseal completed and pre-seal has not run since
    requestContext,  \* c.requestContext / c.requestContextCancelFunc
    stateLock,       \* c.stateLock: Free or the goroutine that holds it
    gen,             \* index of c.standbyDoneCh/StopCh/manualStepDownCh
    loopPc,          \* position of each runStandby goroutine
    loopUuid,        \* the leader uuid of the loop's current attempt
    loopManual,      \* manualStepDown of the loop's current iteration
    stopClosed,      \* standbyStopCh closed
    doneClosed,      \* standbyDoneCh closed
    shutdownGo,      \* `go c.Shutdown()` goroutines started and not yet run
    sealGo,          \* seal goroutines started that wait for the state lock
    sealWait,        \* sealInternal calls waiting on standbyDoneCh, by generation
    sealCall,        \* a recorded Seal call waits for its sealInternal to return
    leaderCache,     \* c.clusterLeaderUUID and c.clusterLeaderRedirectAddr
    leaderCall,      \* a Leader call between its read of the cache and its refresh
    poisonPill,      \* core/poison-pill holds a value
    lockHolder,      \* uuid holding core/lock (0: free)
    lostCh,          \* uuids whose leader_lost channel the backend closed
    uuidCtr,         \* uuids generated so far
    adverts,         \* core/leader/<uuid> entries: uuid -> writing node
    lookupCall,      \* the last group lookup request and its answer
    upgrade,         \* the keyring terms, the upgrade entries and the pending cleanup timers
    sweep,           \* the cleanLeaderPrefix goroutine of each leader uuid
    readLock,        \* the last SealWithRequest call: its return statement and its lock operations
    life,            \* the steps of the last postUnseal and preSeal calls, c.metricsCh, rekey progress
    last             \* the last operation, its input and its result

vars == <<sealConfig, ha, nodes, keys, traceAuth, sealed, standby, unlockInfo, nonceCtr,
          barrierSealed, subsystemsUp, requestContext, stateLock, gen, loopPc,
          loopUuid, loopManual, stopClosed, doneClosed, shutdownGo, sealGo, sealWait,
          sealCall, leaderCache, leaderCall, poisonPill,
          lockHolder, lostCh, uuidCtr, adverts, life, lookupCall, readLock, upgrade, sweep, last>>

configVars == <<sealConfig, ha, nodes, keys, traceAuth>>
stepVars == <<life, lookupCall, readLock, upgrade, sweep>>
unlockVars == <<unlockInfo, nonceCtr>>
loopVars == <<gen, loopPc, loopUuid, loopManual, stopClosed, doneClosed>>
backendVars == <<lockHolder, lostCh, uuidCtr, adverts>>
sealVars == <<shutdownGo, sealGo, sealWait, sealCall>>
leaderVars == <<leaderCache, leaderCall>>
coreVars == <<sealed, standby, barrierSealed, subsystemsUp, requestContext>>

\* c.stateLock held by nobody
Free == <<"free", 0>>

\* ------------------------------------------------------------ byte strings

Range(s) == {s[i] : i \in 1..Len(s)}

memzero(b) == [i \in 1..Len(b) |-> 0]

IsZero(b) == \A i \in 1..Len(b) : b[i] = 0

ConstantTimeCompare(a, b) == IF Len(a) = Len(b) /\ \A i \in 1..Len(a) : a[i] = b[i] THEN 1 ELSE 0

\* ------------------------------------------------------------------ Shamir

FInv(a) == CHOOSE b \in 1..(FieldP - 1) : (a * b) % FieldP = 1

FSub(a, b) == (a + FieldP - b) % FieldP

RECURSIVE FSum(_, _)
FSum(f, n) == IF n = 0 THEN 0 ELSE (f[n] + FSum(f, n - 1)) % FieldP

RECURSIVE FProd(_, _)
FProd(f, n) == IF n = 0 THEN 1 ELSE (f[n] * FProd(f, n - 1)) % FieldP

ShareX(p) == p[Len(p)]

\* Lagrange interpolation at 0 of byte k of the parts
Interpolate(parts, k) ==
    LET n == Len(parts)
        basis(i) == FProd([j \in 1..n |->
                        IF j = i THEN 1
                        ELSE (ShareX(parts[j]) * FInv(FSub(ShareX(parts[j]), ShareX(parts[i])))) % FieldP], n)
    IN FSum([i \in 1..n |-> (parts[i][k] * basis(i)) % FieldP], n)

\* shamir.Combine: the secret of the parts, or an error
Combine(parts) ==
    IF Len(parts) < 2 THEN [ok |-> FALSE, key |-> NoKey]
    ELSE IF Len(parts[1]) < 2 THEN [ok |-> FALSE, key |-> NoKey]
    ELSE IF \E i \in 1..Len(parts) : Len(parts[i]) # Len(parts[1]) THEN [ok |-> FALSE, key |-> NoKey]
    ELSE IF \E i, j \in 1..Len(parts) : i # j /\ ShareX(parts[i]) = ShareX(parts[j]) THEN [ok |-> FALSE, key |-> NoKey]
    ELSE [ok |-> TRUE, key |-> [k \in 1..(Len(parts[1]) - 1) |-> Interpolate(parts, k)]]

\* the polynomial of the split: constant term the master key byte
PolyCoef(t) == IF t = 2 THEN <<2>> ELSE <<2, 1>>

PolyAt(t, x) ==
    LET c == PolyCoef(t)
    IN (MasterKey[1] + FSum([i \in 1..Len(c) |-> (c[i] * (IF i = 1 THEN x ELSE x * x)) % FieldP], Len(c))) % FieldP

\* the shares the operators hold for a configuration
ValidShares(cfg) ==
    IF cfg.secret_threshold = 1 THEN {MasterKey}
    ELSE {<<PolyAt(cfg.secret_threshold, x), x>> : x \in 1..cfg.secret_shares}

\* shares an operator may also submit: too short, too long, of the wrong
\* length, with a wrong value, with the x coordinate of another share
BadShares == {<<>>, <<1, 1, 1>>, <<1>>, <<1, 1>>, <<2, 3>>, <<4, 2>>}

Shares(cfg) == ValidShares(cfg) \cup BadShares

\* ------------------------------------------------------------ unlock session

\* a session that skips the scan: every submitted key counts as new
HasPartNone(parts, key) == FALSE

\* a scan that compares the submitted key with the newest part only
HasPartNewest(parts, key) ==
    Len(parts) > 0 /\ ConstantTimeCompare(parts[Len(parts)], key) = 1

\* unsealPart's scan of the parts already held for the submitted key
HasPart(parts, key) == \E i \in 1..Len(parts) : ConstantTimeCompare(parts[i], key) = 1

\* unsealPart: not enough keys to unlock
NotEnough(parts, threshold) == Len(parts) < threshold

\* a cleanup that drops the parts without zeroing them
KeepParts(parts) == parts

\* unsealPart's deferred memzero of every part
ZeroParts(parts) == [i \in 1..Len(parts) |-> memzero(parts[i])]

\* a recovery that runs the Shamir combine for every threshold
RecoverCombine(parts, threshold) ==
    [ok |-> Combine(parts).ok, key |-> Combine(parts).key, how |-> "combine"]

\* unsealPart: recover the master key from the parts
Recover(parts, threshold) ==
    IF threshold = 1 THEN [ok |-> TRUE, key |-> parts[1], how |-> "copy"]
    ELSE [ok |-> Combine(parts).ok, key |-> Combine(parts).key, how |-> "combine"]

\* unsealPart: the session, the master key and the buffers when it returns
UnsealPart(info, key, threshold, uuidOK, nonce) ==
    IF info # NoSession /\ HasPart(info.Parts, key)
    THEN [info |-> info, mk |-> NoKey, err |-> "nil", recon |-> "none",
          bufs |-> info.Parts, keyBuf |-> key]
    ELSE IF info = NoSession /\ ~uuidOK
    THEN [info |-> NoSession, mk |-> NoKey, err |-> "uuid", recon |-> "none",
          bufs |-> <<>>, keyBuf |-> key]
    ELSE LET parts == Append(info.Parts, key)
             nn == IF info = NoSession THEN nonce ELSE info.Nonce
         IN IF NotEnough(parts, threshold)
            THEN [info |-> [Parts |-> parts, Nonce |-> nn], mk |-> NoKey, err |-> "nil",
                  recon |-> "none", bufs |-> parts, keyBuf |-> key]
            ELSE LET rec == Recover(parts, threshold)
                     zeroed == ZeroParts(parts)
                 IN [info |-> NoSession,
                     mk |-> IF rec.ok THEN rec.key ELSE NoKey,
                     err |-> IF rec.ok THEN "nil" ELSE "combine",
                     recon |-> rec.how,
                     bufs |-> zeroed,
                     keyBuf |-> zeroed[Len(zeroed)]]

\* SecretProgress: the progress and the nonce of the session
SecretProgress(n) ==
    IF unlockInfo[n] = NoSession THEN <<0, 0>>
    ELSE <<Len(unlockInfo[n].Parts), unlockInfo[n].Nonce>>

\* Leader: is_leader of the core
IsLeader(n) == ~sealed[n] /\ ha /\ ~standby[n]

\* Leader: the error of its first two checks
LeaderErr(isSealed, hasHA) ==
    IF isSealed THEN "ErrSealed" ELSE IF ~hasHA THEN "ErrHANotEnabled" ELSE "nil"

\* ------------------------------------------------------------- ghost record

\* a request that passes every check of sealInitCommon and StepDown
RootRequest == [req |-> TRUE, token |-> "ok", audit |-> "ok", use |-> "ok", acl |-> "root"]

NoAuth == [RootRequest EXCEPT !.req = FALSE, !.token = "none"]

\* the last call of Unseal or ResetUnsealProcess: its input, the progress the
\* session had before it, what it returned, the master key it reconstructed
\* and the contents of the buffers it leaves behind
Op(name, n, before) ==
    [op |-> name, node |-> n, key |-> <<>>, before |-> before, unsealed |-> FALSE,
     err |-> "nil", recon |-> "none", mk |-> NoKey, bufs |-> <<>>, keyBuf |-> <<>>,
     mkBuf |-> <<>>, auth |-> NoAuth, sent |-> FALSE, leader |-> FALSE, addr |-> "",
     uuid |-> 0, pill |-> FALSE, walk |-> FALSE]

UnsealOp(n, key, unsealed, err, r, mkBuf) ==
    [op |-> "Unseal", node |-> n, key |-> key, before |-> Len(unlockInfo[n].Parts),
     unsealed |-> unsealed, err |-> err, recon |-> r.recon, mk |-> r.mk,
     bufs |-> r.bufs, keyBuf |-> r.keyBuf, mkBuf |-> mkBuf, auth |-> NoAuth, sent |-> FALSE,
     leader |-> FALSE, addr |-> "", uuid |-> 0, pill |-> FALSE, walk |-> FALSE]

\* a call of Seal or StepDown: the request, the error returned and whether the
\* seal was started (Seal) or the step-down was delivered to the loop (StepDown)
AuthOp(name, n, auth, err, sent) ==
    IF traceAuth
    THEN [Op(name, n, 0) EXCEPT !.auth = auth, !.err = err, !.sent = sent]
    ELSE Op("internal", "n1", 0)

\* a step of a goroutine of the core or of the backend, no call of the API
Internal == Op("internal", "n1", 0)

NoPart == [info |-> NoSession, mk |-> NoKey, err |-> "nil", recon |-> "none", bufs |-> <<>>, keyBuf |-> <<>>]

\* ------------------------------------------------------------------ helpers

\* Sealed(): c.sealed under the read lock
Sealed(isSealed) == isSealed

\* LookupToken: the error it returns for a token that is not empty
LookupTokenErr(isSealed, isStandby) ==
    IF isSealed THEN "ErrSealed" ELSE IF isStandby THEN "ErrStandby" ELSE "nil"

\* context cancel: c.requestContextCancelFunc() when it is not nil
Cancel(ctx) == IF ctx = "live" THEN "cancelled" ELSE ctx

\* barrier.Unseal: accepts the master key; what it does with another key on a
\* barrier that is already unsealed is not specified
BarrierUnsealResults(n, key) ==
    IF key = MasterKey THEN {TRUE}
    ELSE IF barrierSealed[n] THEN {FALSE}
    ELSE {TRUE, FALSE}


\* no leader known: an empty uuid and empty addresses. The redirect address
\* of a core is its name
NoLeader == [uuid |-> 0, addr |-> "", cluster |-> ""]

\* the cluster address a node advertises next to its redirect address
ClusterAddr(m) == IF m = "n1" THEN "n1:8201" ELSE "n2:8201"

\* ----------------------------------------------------------------- NewCore

T11 == [secret_shares |-> 1, secret_threshold |-> 1]
T23 == [secret_shares |-> 3, secret_threshold |-> 2]
T33 == [secret_shares |-> 3, secret_threshold |-> 3]

\* one core: without HA every share of Shares is submitted; with HA two valid
\* shares, one of the wrong length and one with a wrong value
Configs ==
    {[cfg |-> T23, ha |-> TRUE, nodes |-> {"n1"}, keys |-> {<<0, 1>>, <<2, 2>>, <<1>>, <<2, 3>>}],
     [cfg |-> T11, ha |-> FALSE, nodes |-> {"n1"}, keys |-> Shares(T11)],
     [cfg |-> T23, ha |-> FALSE, nodes |-> {"n1"}, keys |-> Shares(T23)],
     [cfg |-> T33, ha |-> FALSE, nodes |-> {"n1"}, keys |-> Shares(T33)],
     [cfg |-> NoConfig, ha |-> FALSE, nodes |-> {"n1"}, keys |-> Shares(T11)]}

\* a fleet of two cores on one HA backend, unsealed by the master key
FleetConfigs ==
    {[cfg |-> T11, ha |-> TRUE, nodes |-> Node, keys |-> {MasterKey}]}

\* one core with and without HA, unsealed by the master key
AuthConfigs ==
    {[cfg |-> T11, ha |-> TRUE, nodes |-> {"n1"}, keys |-> {MasterKey}],
     [cfg |-> T11, ha |-> FALSE, nodes |-> {"n1"}, keys |-> {MasterKey}]}

\* one HA core unsealed by the master key
LiveConfigs ==
    {[cfg |-> T11, ha |-> TRUE, nodes |-> {"n1"}, keys |-> {MasterKey}]}

\* ------------------------------------------------- postUnseal and preSeal

\* bound: preSeal calls recorded after one postUnseal call
MaxPreSeal == 2

\* postUnseal: its steps in the order of the code
PostUnsealSteps(hasHA) ==
    <<"clearForwardingClients", "Purge", "SetBarrierConfig", "enterprisePostUnseal",
      "ensureWrappingKey", "setupPluginCatalog", "loadMounts", "setupMounts",
      "setupPolicyStore", "loadCORSConfig", "loadCredentials", "setupCredentials",
      "startRollback", "setupExpiration", "loadAudits", "setupAudits",
      "setupAuditedHeadersConfig">>
    \o (IF hasHA THEN <<"startClusterListener">> ELSE <<>>)
    \o <<"emitMetrics">>

\* postUnseal: the steps that return no error
PostUnsealInfallible == {"clearForwardingClients", "Purge", "SetBarrierConfig", "emitMetrics"}

\* the indexes of the steps of postUnseal that can fail (0: no step fails)
FailPoints(hasHA) ==
    {i \in 1..Len(PostUnsealSteps(hasHA)) : PostUnsealSteps(hasHA)[i] \notin PostUnsealInfallible}

\* preSeal: its steps in the order of the code
PreSealSteps ==
    <<"clearRekey", "closeMetrics", "stopClusterListener", "teardownAudits", "stopExpiration",
      "teardownCredentials", "teardownPolicyStore", "stopRollback", "unloadMounts",
      "enterprisePreSeal", "Purge">>

\* preSeal: the steps whose error it appends to its result
PreSealFallible ==
    {"teardownAudits", "stopExpiration", "teardownCredentials", "teardownPolicyStore",
     "stopRollback", "unloadMounts", "enterprisePreSeal"}

\* the teardown step of preSeal that undoes a step of postUnseal
Teardown ==
    [s \in {"enterprisePostUnseal", "setupMounts", "setupPolicyStore", "setupCredentials",
            "startRollback", "setupExpiration", "setupAudits", "startClusterListener",
            "emitMetrics"} |->
       CASE s = "enterprisePostUnseal" -> "enterprisePreSeal"
         [] s = "setupMounts" -> "unloadMounts"
         [] s = "setupPolicyStore" -> "teardownPolicyStore"
         [] s = "setupCredentials" -> "teardownCredentials"
         [] s = "startRollback" -> "stopRollback"
         [] s = "setupExpiration" -> "stopExpiration"
         [] s = "setupAudits" -> "teardownAudits"
         [] s = "startClusterListener" -> "stopClusterListener"
         [] s = "emitMetrics" -> "closeMetrics"]

\* no rekey in progress
NoRekey == [barrier |-> FALSE, recovery |-> FALSE]

\* a core on which neither postUnseal nor preSeal has run: op is the last
\* call, post the steps the last postUnseal invoked, pre the steps the preSeal
\* calls since then invoked, fails the teardown steps that failed in the last
\* preSeal, err and errs what the calls returned, closes the close() calls on
\* the channel c.metricsCh last pointed to
NoLife ==
    [op |-> "none", post |-> <<>>, pre |-> <<>>, preCalls |-> 0, err |-> "nil",
     fails |-> {}, errs |-> <<>>, metricsCh |-> "nil", closes |-> 0, rekey |-> NoRekey]

\* the subsequence of s whose elements are in the set
Filter(s, set) == SelectSeq(s, LAMBDA x : x \in set)

\* a preSeal that returns at the first teardown step that fails
preSealShort(l, fails) ==
    LET bad == {i \in 1..Len(PreSealSteps) : PreSealSteps[i] \in fails \cap PreSealFallible}
        stop == IF bad = {} THEN Len(PreSealSteps) ELSE CHOOSE i \in bad : \A j \in bad : i <= j
        ran == SubSeq(PreSealSteps, 1, stop)
    IN [l EXCEPT !.op = "preSeal", !.pre = @ \o ran, !.preCalls = @ + 1, !.fails = fails,
                 !.errs = Filter(ran, fails \cap PreSealFallible), !.metricsCh = "nil",
                 !.closes = IF l.metricsCh = "nil" THEN @ ELSE @ + 1,
                 !.rekey = NoRekey]

\* preSeal: the rekey state is cleared, c.metricsCh is closed and set to nil
\* when it is not nil, then every teardown step runs and its error is
\* appended to the result
preSeal(l, fails) ==
    [l EXCEPT !.op = "preSeal", !.pre = @ \o PreSealSteps,
              !.preCalls = @ + 1, !.fails = fails,
              !.errs = Filter(PreSealSteps, fails \cap PreSealFallible),
              !.metricsCh = "nil",
              !.closes = IF l.metricsCh = "nil" THEN @ ELSE @ + 1,
              !.rekey = NoRekey]

\* a postUnseal that logs the error of a step and goes on
postUnsealGoOn(l, hasHA, failAt, fails) ==
    LET steps == PostUnsealSteps(hasHA)
        l1 == [l EXCEPT !.post = steps, !.pre = <<>>, !.preCalls = 0,
                        !.err = IF failAt = 0 THEN "nil" ELSE steps[failAt],
                        !.metricsCh = "open", !.closes = 0]
    IN IF failAt = 0 THEN [l1 EXCEPT !.op = "postUnseal"]
       ELSE [preSeal(l1, fails) EXCEPT !.op = "postUnseal"]

\* postUnseal: the steps up to the first that fails; the deferred function
\* runs preSeal when a step failed; the metrics channel is made by the last
\* step
postUnseal(l, hasHA, failAt, fails) ==
    LET steps == PostUnsealSteps(hasHA)
        ran == IF failAt = 0 THEN steps ELSE SubSeq(steps, 1, failAt)
        l1 == [l EXCEPT !.post = ran, !.pre = <<>>, !.preCalls = 0,
                        !.err = IF failAt = 0 THEN "nil" ELSE steps[failAt],
                        !.metricsCh = IF failAt = 0 THEN "open" ELSE @,
                        !.closes = IF failAt = 0 THEN 0 ELSE @]
    IN IF failAt = 0 THEN [l1 EXCEPT !.op = "postUnseal"]
       ELSE [preSeal(l1, fails) EXCEPT !.op = "postUnseal"]

\* ------------------------------------------------------ identity group lookup

\* a nil *logical.Response, a nil error
Nil == [kind |-> "nil", text |-> "", arg |-> ""]

\* logical.ErrorResponse(text), text formatted with arg quoted by %q
ErrorResponse(text, arg) == [kind |-> "errorResponse", text |-> text, arg |-> arg]

NoLookup == [called |-> FALSE, type |-> "", id |-> "", name |-> "", db |-> "none", read |-> "nil",
             resp |-> Nil, err |-> Nil, site |-> "none"]

\* what the call of handleGroupReadCommon(group) hands back: a response, an
\* error, or neither
handleGroupReadCommon(read, site) ==
    [returned |-> TRUE, site |-> site,
     resp |-> IF read = "response" THEN [kind |-> "group", text |-> "", arg |-> ""] ELSE Nil,
     err |-> IF read = "error" THEN [kind |-> "error", text |-> "read", arg |-> ""] ELSE Nil]

\* a switch whose default case does not return
lookupSwitchNoDefault(type, id, name, db, read) ==
    CASE type = "id" ->
            IF id = "" THEN [returned |-> TRUE, site |-> "emptyID", resp |-> ErrorResponse("empty ID", ""), err |-> Nil]
            ELSE IF db = "error"
                 THEN [returned |-> TRUE, site |-> "byIDError", resp |-> Nil,
                       err |-> [kind |-> "error", text |-> "memdb", arg |-> id]]
                 ELSE handleGroupReadCommon(read, "byID")
      [] type = "name" ->
            IF name = "" THEN [returned |-> TRUE, site |-> "emptyName", resp |-> ErrorResponse("empty name", ""), err |-> Nil]
            ELSE IF db = "error"
                 THEN [returned |-> TRUE, site |-> "byNameError", resp |-> Nil,
                       err |-> [kind |-> "error", text |-> "memdb", arg |-> name]]
                 ELSE handleGroupReadCommon(read, "byName")
      [] OTHER -> [returned |-> FALSE, site |-> "default", resp |-> Nil, err |-> Nil]

\* the switch of pathLookupGroupUpdate: what the case taken returns
lookupSwitch(type, id, name, db, read) ==
    CASE type = "id" ->
            IF id = "" THEN [returned |-> TRUE, site |-> "emptyID", resp |-> ErrorResponse("empty ID", ""), err |-> Nil]
            ELSE IF db = "error"
                 THEN [returned |-> TRUE, site |-> "byIDError", resp |-> Nil,
                       err |-> [kind |-> "error", text |-> "memdb", arg |-> id]]
                 ELSE handleGroupReadCommon(read, "byID")
      [] type = "name" ->
            IF name = "" THEN [returned |-> TRUE, site |-> "emptyName", resp |-> ErrorResponse("empty name", ""), err |-> Nil]
            ELSE IF db = "error"
                 THEN [returned |-> TRUE, site |-> "byNameError", resp |-> Nil,
                       err |-> [kind |-> "error", text |-> "memdb", arg |-> name]]
                 ELSE handleGroupReadCommon(read, "byName")
      [] OTHER -> [returned |-> TRUE, site |-> "default",
                   resp |-> ErrorResponse("unrecognized type %q", type), err |-> Nil]

\* pathLookupGroupUpdate: the response, the error and the return statement
pathLookupGroupUpdate(type, id, name, db, read) ==
    IF type = "" THEN [site |-> "emptyType", resp |-> ErrorResponse("empty type", ""), err |-> Nil]
    ELSE LET r == lookupSwitch(type, id, name, db, read)
         IN IF r.returned THEN [site |-> r.site, resp |-> r.resp, err |-> r.err]
            ELSE [site |-> "fallthrough", resp |-> Nil, err |-> Nil]

\* ------------------------------------------- the read lock of sealInitCommon

NoReadLock == [site |-> "none", err |-> "nil", ops |-> <<>>]

\* a sealInitCommon whose refusal on a standby returns with the read lock
sealInitCommonKeepLock(n, auth) ==
    IF ~auth.req THEN [site |-> "nilRequest", err |-> "nilRequest", ops |-> <<"RUnlock">>]
    ELSE IF ~subsystemsUp[n] \/ auth.token # "ok"
    THEN (IF standby[n] THEN [site |-> "standby", err |-> "standby", ops |-> <<>>]
          ELSE [site |-> "token", err |-> "token", ops |-> <<"RUnlock">>])
    ELSE IF auth.audit # "ok" THEN [site |-> "audit", err |-> "audit", ops |-> <<"RUnlock">>]
    ELSE IF auth.use = "err" THEN [site |-> "useToken", err |-> "internal", ops |-> <<"RUnlock">>]
    ELSE IF auth.use = "revoked" THEN [site |-> "revoked", err |-> "denied", ops |-> <<"RUnlock">>]
    ELSE IF auth.acl = "denied" THEN [site |-> "notAllowed", err |-> "denied", ops |-> <<"RUnlock">>]
    ELSE IF auth.acl # "root" THEN [site |-> "notRoot", err |-> "denied", ops |-> <<"RUnlock">>]
    ELSE [site |-> "seal", err |-> "nil", ops |-> <<"cancel", "RUnlock", "go", "Lock">>]

\* sealInitCommon: the return statement taken, its error and the operations
\* on the state lock up to it, in the order of the code
sealInitCommon(n, auth) ==
    IF ~auth.req THEN [site |-> "nilRequest", err |-> "nilRequest", ops |-> <<"RUnlock">>]
    ELSE IF ~subsystemsUp[n] \/ auth.token # "ok"
    THEN (IF standby[n] THEN [site |-> "standby", err |-> "standby", ops |-> <<"RUnlock">>]
          ELSE [site |-> "token", err |-> "token", ops |-> <<"RUnlock">>])
    ELSE IF auth.audit # "ok" THEN [site |-> "audit", err |-> "audit", ops |-> <<"RUnlock">>]
    ELSE IF auth.use = "err" THEN [site |-> "useToken", err |-> "internal", ops |-> <<"RUnlock">>]
    ELSE IF auth.use = "revoked" THEN [site |-> "revoked", err |-> "denied", ops |-> <<"RUnlock">>]
    ELSE IF auth.acl = "denied" THEN [site |-> "notAllowed", err |-> "denied", ops |-> <<"RUnlock">>]
    ELSE IF auth.acl # "root" THEN [site |-> "notRoot", err |-> "denied", ops |-> <<"RUnlock">>]
    ELSE [site |-> "seal", err |-> "nil", ops |-> <<"cancel", "RUnlock", "go", "Lock">>]

\* ------------------------------------------------------ key-upgrade cleanup

\* bound: the keyring terms, the first one without an upgrade entry
MaxTerm == 3

\* the keyring of term 1 in storage and loaded, no upgrade entry, no timer
NoUpgrade == [stored |-> 1, term |-> 1, entries |-> {}, timers |-> {}, op |-> "none", out |-> "ok",
              fired |-> {}]

\* checkKeyUpgrades: CheckUpgrade advances the active term while the entry of
\* the next term is stored
RECURSIVE checkKeyUpgrades(_, _)
checkKeyUpgrades(term, entries) ==
    IF (term + 1) \in entries THEN checkKeyUpgrades(term + 1, entries) ELSE term

\* performKeyUpgrades and scheduleUpgradeCleanup: the walk, the reload of the
\* master key, the reload of the keyring, the list of the upgrade entries and
\* the timer that keeps that list; out is the step that fails
performKeyUpgrades(u, out) ==
    LET walked == IF out = "walk" THEN u.term ELSE checkKeyUpgrades(u.term, u.entries)
        loaded == IF out \in {"walk", "reloadMaster", "reloadKeyring"} THEN walked ELSE u.stored
        listed == out \notin {"walk", "reloadMaster", "reloadKeyring", "list"}
    IN [u EXCEPT !.term = loaded,
                 !.timers = IF listed /\ u.entries # {} THEN @ \cup {u.entries} ELSE @,
                 !.op = "perform", !.out = out, !.fired = {}]

\* standby loops a core of the configuration may start
GenLimit == IF Cardinality(nodes) = 1 THEN MaxGen ELSE MaxGen - 1

\* NewCore: sealed and standby, nothing started
NewCore ==
    /\ sealed = [n \in Node |-> TRUE]
    /\ standby = [n \in Node |-> TRUE]
    /\ unlockInfo = [n \in Node |-> NoSession]
    /\ nonceCtr = [n \in Node |-> 0]
    /\ barrierSealed = [n \in Node |-> TRUE]
    /\ subsystemsUp = [n \in Node |-> FALSE]
    /\ requestContext = [n \in Node |-> "none"]
    /\ stateLock = [n \in Node |-> Free]
    /\ gen = [n \in Node |-> 0]
    /\ loopPc = [n \in Node |-> [g \in Gen |-> "idle"]]
    /\ loopUuid = [n \in Node |-> [g \in Gen |-> 0]]
    /\ loopManual = [n \in Node |-> [g \in Gen |-> FALSE]]
    /\ stopClosed = [n \in Node |-> [g \in Gen |-> FALSE]]
    /\ doneClosed = [n \in Node |-> [g \in Gen |-> FALSE]]
    /\ shutdownGo = [n \in Node |-> 0]
    /\ sealGo = [n \in Node |-> 0]
    /\ sealWait = [n \in Node |-> {}]
    /\ sealCall = [n \in Node |-> FALSE]
    /\ leaderCache = [n \in Node |-> NoLeader]
    /\ leaderCall = [n \in Node |-> NoLeader]
    /\ poisonPill = FALSE
    /\ lockHolder = 0
    /\ lostCh = {}
    /\ uuidCtr = 0
    /\ adverts = {}
    /\ life = NoLife
    /\ lookupCall = NoLookup
    /\ readLock = NoReadLock
    /\ upgrade = NoUpgrade
    /\ sweep = [u \in 1..MaxUuid |-> [pc |-> "none", node |-> "n1", keys |-> {}, deleted |-> 0]]
    /\ last = Internal

Init ==
    /\ \E c \in Configs : sealConfig = c.cfg /\ ha = c.ha /\ nodes = c.nodes /\ keys = c.keys
    /\ traceAuth = FALSE
    /\ NewCore

InitFleet ==
    /\ \E c \in FleetConfigs : sealConfig = c.cfg /\ ha = c.ha /\ nodes = c.nodes /\ keys = c.keys
    /\ traceAuth = FALSE
    /\ NewCore

InitLive ==
    /\ \E c \in LiveConfigs : sealConfig = c.cfg /\ ha = c.ha /\ nodes = c.nodes /\ keys = c.keys
    /\ traceAuth = FALSE
    /\ NewCore

\* one core unsealed by the master key, the calls of Seal and StepDown recorded
InitAuth ==
    /\ \E c \in AuthConfigs : sealConfig = c.cfg /\ ha = c.ha /\ nodes = c.nodes /\ keys = c.keys
    /\ traceAuth = TRUE
    /\ NewCore

\* ------------------------------------------------------------------ Unseal

\* an unsealInternal that leaves the barrier unsealed when the setup fails
UnsealInternalNoHAKeepBarrier(n, key, r, out) ==
    /\ barrierSealed' = [barrierSealed EXCEPT ![n] = FALSE]
    /\ subsystemsUp' = [subsystemsUp EXCEPT ![n] = IF out = "cluster" THEN @ ELSE (out = "ok")]
    /\ requestContext' = [requestContext EXCEPT ![n] = IF out = "ok" THEN "live" ELSE @]
    /\ standby' = [standby EXCEPT ![n] = IF out = "ok" THEN FALSE ELSE @]
    /\ sealed' = [sealed EXCEPT ![n] = (out # "ok")]
    /\ last' = UnsealOp(n, key, out = "ok", IF out = "ok" THEN "nil" ELSE out, r, memzero(r.mk))
    /\ UNCHANGED <<loopVars>>

\* unsealInternal without an HA backend: cluster setup and post-unseal, then
\* standby = false and sealed = false; a failure seals the barrier again
UnsealInternalNoHA(n, key, r, out) ==
    /\ barrierSealed' = [barrierSealed EXCEPT ![n] = (out # "ok")]
    /\ subsystemsUp' = [subsystemsUp EXCEPT ![n] = IF out = "cluster" THEN @ ELSE (out = "ok")]
    /\ requestContext' = [requestContext EXCEPT ![n] = IF out = "ok" THEN "live" ELSE @]
    /\ standby' = [standby EXCEPT ![n] = IF out = "ok" THEN FALSE ELSE @]
    /\ sealed' = [sealed EXCEPT ![n] = (out # "ok")]
    /\ last' = UnsealOp(n, key, out = "ok", IF out = "ok" THEN "nil" ELSE out, r, memzero(r.mk))
    /\ UNCHANGED <<loopVars>>

\* unsealInternal with an HA backend: new channels, a new runStandby
\* goroutine, sealed = false
UnsealInternalHA(n, key, r) ==
    /\ gen[n] < GenLimit
    /\ gen' = [gen EXCEPT ![n] = @ + 1]
    /\ loopPc' = [loopPc EXCEPT ![n][gen[n] + 1] = "top"]
    /\ barrierSealed' = [barrierSealed EXCEPT ![n] = FALSE]
    /\ sealed' = [sealed EXCEPT ![n] = FALSE]
    /\ last' = UnsealOp(n, key, TRUE, "nil", r, memzero(r.mk))
    /\ UNCHANGED <<standby, subsystemsUp, requestContext, loopUuid, loopManual, stopClosed, doneClosed>>

\* an early return that also drops the unlock session
UnsealReturnDrop(n, key, unsealed, err) ==
    /\ last' = UnsealOp(n, key, unsealed, err, [NoPart EXCEPT !.keyBuf = key], <<>>)
    /\ unlockInfo' = [unlockInfo EXCEPT ![n] = NoSession]
    /\ UNCHANGED <<nonceCtr, coreVars, loopVars>>

\* Unseal's early returns: no state changes
UnsealReturn(n, key, unsealed, err) ==
    /\ last' = UnsealOp(n, key, unsealed, err, [NoPart EXCEPT !.keyBuf = key], <<>>)
    /\ UNCHANGED <<unlockVars, coreVars, loopVars>>

Unseal(n, key) ==
    /\ n \in nodes
    /\ key \in keys
    /\ IF Len(key) < KeyLenMin \/ Len(key) > KeyLenMax + ShareOverhead
       THEN UnsealReturn(n, key, FALSE, "InvalidKey")
       ELSE IF sealConfig = NoConfig
       THEN UnsealReturn(n, key, FALSE, "NotInit")
       ELSE /\ stateLock[n] = Free
            /\ IF ~sealed[n]
               THEN UnsealReturn(n, key, TRUE, "nil")
               ELSE \E uuidOK \in (IF unlockInfo[n] = NoSession THEN BOOLEAN ELSE {TRUE}) :
                    /\ (unlockInfo[n] = NoSession /\ uuidOK) => nonceCtr[n] < MaxNonce
                    /\ LET r == UnsealPart(unlockInfo[n], key, sealConfig.secret_threshold,
                                           uuidOK, nonceCtr[n] + 1)
                       IN /\ unlockInfo' = [unlockInfo EXCEPT ![n] = r.info]
                          /\ nonceCtr' = [nonceCtr EXCEPT ![n] =
                                            IF unlockInfo[n] = NoSession /\ uuidOK THEN @ + 1 ELSE @]
                          /\ IF r.mk = NoKey
                             THEN /\ last' = UnsealOp(n, key, FALSE, r.err, r, <<>>)
                                  /\ UNCHANGED <<coreVars, loopVars>>
                             ELSE \E accepted \in BarrierUnsealResults(n, r.mk) :
                                  IF ~accepted
                                  THEN /\ last' = UnsealOp(n, key, FALSE, "InvalidKey", r, memzero(r.mk))
                                       /\ UNCHANGED <<coreVars, loopVars>>
                                  ELSE IF ~ha
                                  THEN \E out \in {"ok", "cluster", "postUnseal"} :
                                          UnsealInternalNoHA(n, key, r, out)
                                  ELSE UnsealInternalHA(n, key, r)
    /\ UNCHANGED <<configVars, stepVars, leaderVars, poisonPill, stateLock, sealVars, backendVars>>

\* ------------------------------------------------------ ResetUnsealProcess

\* a reset whose sealed check is inverted
ResetUnsealProcessUnsealed(n) ==
    /\ n \in nodes
    /\ stateLock[n] = Free
    /\ unlockInfo' = [unlockInfo EXCEPT ![n] = IF sealed[n] THEN @ ELSE NoSession]
    /\ last' = Op("ResetUnsealProcess", n, Len(unlockInfo[n].Parts))
    /\ UNCHANGED <<configVars, stepVars, leaderVars, poisonPill, nonceCtr, coreVars, stateLock, loopVars, sealVars, backendVars>>

\* ResetUnsealProcess: under the write lock, drop the session of a sealed core
ResetUnsealProcess(n) ==
    /\ n \in nodes
    /\ stateLock[n] = Free
    /\ unlockInfo' = [unlockInfo EXCEPT ![n] = IF sealed[n] THEN NoSession ELSE @]
    /\ last' = Op("ResetUnsealProcess", n, Len(unlockInfo[n].Parts))
    /\ UNCHANGED <<configVars, stepVars, leaderVars, poisonPill, nonceCtr, coreVars, stateLock, loopVars, sealVars, backendVars>>


\* ----------------------------------------------------- Seal, Shutdown, StepDown

\* seal and step-down requests: a nil request; what the token lookup, the
\* audit log and UseToken answer; what the ACL of the token allows
AuthResults ==
    {RootRequest,
     [RootRequest EXCEPT !.req = FALSE],
     [RootRequest EXCEPT !.token = "err"],
     [RootRequest EXCEPT !.audit = "err"],
     [RootRequest EXCEPT !.use = "err"],
     [RootRequest EXCEPT !.use = "revoked"],
     [RootRequest EXCEPT !.acl = "allowed"],
     [RootRequest EXCEPT !.acl = "denied"],
     [RootRequest EXCEPT !.token = "err", !.audit = "err", !.acl = "denied"]}

\* an authorization that does not wait for the audit log
AuthErrorNoAudit(n, auth) ==
    IF ~auth.req THEN "nilRequest"
    ELSE IF ~subsystemsUp[n] \/ auth.token # "ok"
    THEN (IF standby[n] THEN "standby" ELSE "token")
    ELSE IF auth.use = "err" THEN "internal"
    ELSE IF auth.use = "revoked" THEN "denied"
    ELSE IF auth.acl # "root" THEN "denied"
    ELSE "nil"

\* an authorization that reports the failed token lookup on a standby too
AuthErrorNoStandby(n, auth) ==
    IF ~auth.req THEN "nilRequest"
    ELSE IF ~subsystemsUp[n] \/ auth.token # "ok" THEN "token"
    ELSE IF auth.audit # "ok" THEN "audit"
    ELSE IF auth.use = "err" THEN "internal"
    ELSE IF auth.use = "revoked" THEN "denied"
    ELSE IF auth.acl # "root" THEN "denied"
    ELSE "nil"

\* sealInitCommon / StepDown: the error the authorization ends with. The
\* token lookup fails when no token store is live
AuthError(n, auth) ==
    IF ~auth.req THEN "nilRequest"
    ELSE IF ~subsystemsUp[n] \/ auth.token # "ok"
    THEN (IF standby[n] THEN "standby" ELSE "token")
    ELSE IF auth.audit # "ok" THEN "audit"
    ELSE IF auth.use = "err" THEN "internal"
    ELSE IF auth.use = "revoked" THEN "denied"
    ELSE IF auth.acl # "root" THEN "denied"
    ELSE "nil"

\* a Seal that authorizes the request before it looks at c.sealed
SealAuthFirst(n, auth) ==
    /\ n \in nodes
    /\ stateLock[n] = Free
    /\ IF AuthError(n, auth) # "nil"
       THEN /\ last' = AuthOp("Seal", n, auth, AuthError(n, auth), FALSE)
            /\ UNCHANGED <<requestContext, sealGo, sealCall>>
       ELSE IF sealed[n]
       THEN /\ last' = AuthOp("Seal", n, auth, "nil", FALSE)
            /\ UNCHANGED <<requestContext, sealGo, sealCall>>
       ELSE /\ sealGo[n] = 0
            /\ requestContext' = [requestContext EXCEPT ![n] = Cancel(@)]
            /\ sealGo' = [sealGo EXCEPT ![n] = @ + 1]
            /\ sealCall' = [sealCall EXCEPT ![n] = traceAuth]
            /\ last' = AuthOp("Seal", n, auth, "nil", TRUE)
    /\ UNCHANGED <<configVars, stepVars, leaderVars, poisonPill, unlockVars, sealed, standby, barrierSealed, subsystemsUp,
                   stateLock, loopVars, shutdownGo, sealWait, backendVars>>

\* Seal and SealWithRequest (sealInitCommon): authorize under the read lock,
\* cancel the request context, start the goroutine that seals
Seal(n, auth) ==
    /\ n \in nodes
    /\ stateLock[n] = Free
    /\ IF sealed[n]
       THEN /\ last' = AuthOp("Seal", n, auth, "nil", FALSE)
            /\ UNCHANGED <<requestContext, sealGo, sealCall>>
       ELSE IF AuthError(n, auth) # "nil"
       THEN /\ last' = AuthOp("Seal", n, auth, AuthError(n, auth), FALSE)
            /\ UNCHANGED <<requestContext, sealGo, sealCall>>
       ELSE /\ sealGo[n] = 0
            /\ requestContext' = [requestContext EXCEPT ![n] = Cancel(@)]
            /\ sealGo' = [sealGo EXCEPT ![n] = @ + 1]
            /\ sealCall' = [sealCall EXCEPT ![n] = traceAuth]
            /\ last' = AuthOp("Seal", n, auth, "nil", TRUE)
    /\ UNCHANGED <<configVars, stepVars, leaderVars, poisonPill, unlockVars, sealed, standby, barrierSealed, subsystemsUp,
                   stateLock, loopVars, shutdownGo, sealWait, backendVars>>

\* Shutdown: cancel the request context under the read lock, start the
\* goroutine that seals
ShutdownBody(n) ==
    /\ stateLock[n] = Free
    /\ requestContext' = [requestContext EXCEPT ![n] = Cancel(@)]
    /\ sealGo' = [sealGo EXCEPT ![n] = @ + 1]
    /\ last' = Internal
    /\ UNCHANGED <<configVars, stepVars, leaderVars, poisonPill, unlockVars, sealed, standby, barrierSealed, subsystemsUp,
                   stateLock, loopVars, sealWait, sealCall, backendVars>>

Shutdown(n) ==
    /\ n \in nodes
    /\ sealGo[n] = 0
    /\ ShutdownBody(n)
    /\ UNCHANGED shutdownGo

\* a `go c.Shutdown()` started by the standby loop
ShutdownGo(n) ==
    /\ n \in nodes
    /\ shutdownGo[n] > 0
    /\ shutdownGo' = [shutdownGo EXCEPT ![n] = @ - 1]
    /\ ShutdownBody(n)

\* sealInternal returns to one of the calls that wait for it, rest other
\* calls still wait: the recorded Seal call returns now or is one of the rest
SealCallReturn(n, rest) ==
    sealCall' \in {[sealCall EXCEPT ![n] = r] : r \in IF rest = 0 THEN {FALSE} ELSE {FALSE, sealCall[n]}}

\* sealInternal without an HA backend, sealed = false on entry
SealInternalNoHA(n, preSealOK) ==
    /\ sealed' = [sealed EXCEPT ![n] = TRUE]
    /\ standby' = [standby EXCEPT ![n] = TRUE]
    /\ subsystemsUp' = [subsystemsUp EXCEPT ![n] = FALSE]
    /\ barrierSealed' = [barrierSealed EXCEPT ![n] = IF preSealOK THEN TRUE ELSE @]
    /\ last' = Internal
    /\ SealCallReturn(n, sealGo[n] - 1)
    /\ UNCHANGED <<requestContext, stopClosed, sealWait>>

\* sealInternal with an HA backend, sealed = false on entry: up to the
\* release of the state lock
SealInternalHA(n) ==
    /\ sealed' = [sealed EXCEPT ![n] = TRUE]
    /\ stopClosed' = [stopClosed EXCEPT ![n][gen[n]] = TRUE]
    /\ requestContext' = [requestContext EXCEPT ![n] = "none"]
    /\ sealWait' = [sealWait EXCEPT ![n] = @ \cup {gen[n]}]
    /\ last' = Internal
    /\ UNCHANGED <<standby, subsystemsUp, barrierSealed, sealCall>>

\* the goroutine of Seal and Shutdown: sealInternal under the write lock
SealInternal(n) ==
    /\ n \in nodes
    /\ sealGo[n] > 0
    /\ stateLock[n] = Free
    /\ sealGo' = [sealGo EXCEPT ![n] = @ - 1]
    /\ IF sealed[n]
       THEN /\ last' = Internal
            /\ SealCallReturn(n, sealGo[n] - 1 + Cardinality(sealWait[n]))
            /\ UNCHANGED <<coreVars, stopClosed, sealWait>>
       ELSE IF ~ha
       THEN \E preSealOK \in BOOLEAN : SealInternalNoHA(n, preSealOK)
       ELSE SealInternalHA(n)
    /\ UNCHANGED <<configVars, stepVars, leaderVars, poisonPill, unlockVars, stateLock, gen, loopPc, loopUuid, loopManual,
                   doneClosed, shutdownGo, backendVars>>

\* sealInternal after the standby loop closed the done channel it reads from
\* c.standbyDoneCh: the state lock again, then the barrier is sealed
SealInternalResume(n, g) ==
    /\ n \in nodes
    /\ g \in sealWait[n]
    /\ \E h \in g..gen[n] : doneClosed[n][h]
    /\ stateLock[n] = Free
    /\ barrierSealed' = [barrierSealed EXCEPT ![n] = TRUE]
    /\ sealWait' = [sealWait EXCEPT ![n] = @ \ {g}]
    /\ SealCallReturn(n, sealGo[n] + Cardinality(sealWait[n]) - 1)
    /\ last' = Internal
    /\ UNCHANGED <<configVars, stepVars, leaderVars, poisonPill, unlockVars, sealed, standby, subsystemsUp, requestContext,
                   stateLock, loopVars, shutdownGo, sealGo, backendVars>>

\* StepDown: authorize under the read lock, then a non-blocking send on
\* c.manualStepDownCh, which the loop receives only while it waits in its select
StepDown(n, auth) ==
    /\ n \in nodes
    /\ stateLock[n] = Free
    /\ IF ~auth.req
       THEN /\ last' = AuthOp("StepDown", n, auth, "nilRequest", FALSE)
            /\ UNCHANGED <<loopPc, loopManual>>
       ELSE IF sealed[n] \/ ~ha \/ standby[n]
       THEN /\ last' = AuthOp("StepDown", n, auth, "nil", FALSE)
            /\ UNCHANGED <<loopPc, loopManual>>
       ELSE IF AuthError(n, auth) # "nil"
       THEN /\ last' = AuthOp("StepDown", n, auth, AuthError(n, auth), FALSE)
            /\ UNCHANGED <<loopPc, loopManual>>
       ELSE IF loopPc[n][gen[n]] = "active"
       THEN /\ loopPc' = [loopPc EXCEPT ![n][gen[n]] = "clearLeader"]
            /\ loopManual' = [loopManual EXCEPT ![n][gen[n]] = TRUE]
            /\ last' = AuthOp("StepDown", n, auth, "nil", TRUE)
       ELSE /\ last' = AuthOp("StepDown", n, auth, "nil", FALSE)
            /\ UNCHANGED <<loopPc, loopManual>>
    /\ UNCHANGED <<configVars, stepVars, leaderVars, poisonPill, unlockVars, coreVars, stateLock, gen, loopUuid, stopClosed,
                   doneClosed, sealVars, backendVars>>


\* --------------------------------------------------------------- runStandby

LoopFrame == UNCHANGED <<configVars, stepVars, leaderVars, poisonPill, unlockVars, gen, sealGo, sealWait, sealCall>>

\* top of the loop: the shutdown check, then a fresh uuid and a lock on it
RunStandbyTop(n, g, uuidOK) ==
    /\ n \in nodes
    /\ loopPc[n][g] = "top"
    /\ IF stopClosed[n][g]
       THEN /\ loopPc' = [loopPc EXCEPT ![n][g] = "exit"]
            /\ UNCHANGED <<uuidCtr, loopUuid>>
       ELSE IF ~uuidOK
       THEN /\ loopPc' = [loopPc EXCEPT ![n][g] = "exit"]
            /\ UNCHANGED <<uuidCtr, loopUuid>>
       ELSE /\ uuidCtr < MaxUuid
            /\ uuidCtr' = uuidCtr + 1
            /\ loopUuid' = [loopUuid EXCEPT ![n][g] = uuidCtr + 1]
            /\ loopPc' = [loopPc EXCEPT ![n][g] = "acquire"]
    /\ last' = Internal
    /\ LoopFrame
    /\ UNCHANGED <<coreVars, stateLock, loopManual, stopClosed, doneClosed, shutdownGo,
                   lockHolder, lostCh, adverts>>

\* acquireLock: the lock is granted, or the stop channel ends the wait
AcquireLock(n, g, stop) ==
    /\ n \in nodes
    /\ loopPc[n][g] = "acquire"
    /\ IF stop
       THEN /\ stopClosed[n][g]
            /\ loopPc' = [loopPc EXCEPT ![n][g] = "exit"]
            /\ UNCHANGED lockHolder
       ELSE /\ lockHolder = 0
            /\ lockHolder' = loopUuid[n][g]
            /\ loopPc' = [loopPc EXCEPT ![n][g] = "acquired"]
    /\ last' = Internal
    /\ LoopFrame
    /\ UNCHANGED <<coreVars, stateLock, loopUuid, loopManual, stopClosed, doneClosed,
                   shutdownGo, lostCh, uuidCtr, adverts>>

\* what the leadership setup under the state lock can end with before
\* post-unseal: a sealed barrier fails the key upgrades
SetupResults(n) ==
    IF barrierSealed[n] THEN {"keyUpgrades"}
    ELSE {"ok", "keyUpgrades", "cluster", "advertise"}

\* a setup that only logs the failure of the key upgrades before it returns
RunStandbySetupNoShutdown(n, g, out) ==
    /\ n \in nodes
    /\ loopPc[n][g] = "acquired"
    /\ stateLock[n] = Free
    /\ out \in SetupResults(n)
    /\ adverts' = IF out = "ok" THEN adverts \cup {<<loopUuid[n][g], n>>} ELSE adverts
    /\ stateLock' = [stateLock EXCEPT ![n] = IF out = "ok" THEN <<"runStandby", g>> ELSE @]
    /\ loopPc' = [loopPc EXCEPT ![n][g] =
                    IF out = "ok" THEN "postUnseal"
                    ELSE IF out = "keyUpgrades" THEN "unlockReturn" ELSE "unlockContinue"]
    /\ last' = Internal
    /\ LoopFrame
    /\ UNCHANGED <<coreVars, loopUuid, loopManual, stopClosed, doneClosed, shutdownGo,
                   lockHolder, lostCh, uuidCtr>>

\* after the lock was acquired: the state lock, performKeyUpgrades,
\* setupCluster, advertiseLeader
RunStandbySetup(n, g, out) ==
    /\ n \in nodes
    /\ loopPc[n][g] = "acquired"
    /\ stateLock[n] = Free
    /\ out \in SetupResults(n)
    /\ shutdownGo' = [shutdownGo EXCEPT ![n] = IF out = "keyUpgrades" THEN @ + 1 ELSE @]
    /\ adverts' = IF out = "ok" THEN adverts \cup {<<loopUuid[n][g], n>>} ELSE adverts
    /\ stateLock' = [stateLock EXCEPT ![n] = IF out = "ok" THEN <<"runStandby", g>> ELSE @]
    /\ loopPc' = [loopPc EXCEPT ![n][g] =
                    IF out = "ok" THEN "postUnseal"
                    ELSE IF out = "keyUpgrades" THEN "unlockReturn" ELSE "unlockContinue"]
    /\ last' = Internal
    /\ LoopFrame
    /\ UNCHANGED <<coreVars, loopUuid, loopManual, stopClosed, doneClosed,
                   lockHolder, lostCh, uuidCtr>>

\* a post-unseal step that leaves standby mode whether or not postUnseal succeeded
RunStandbyPostUnsealAlways(n, g, ok) ==
    /\ n \in nodes
    /\ loopPc[n][g] = "postUnseal"
    /\ stateLock[n] = <<"runStandby", g>>
    /\ subsystemsUp' = [subsystemsUp EXCEPT ![n] = ok]
    /\ requestContext' = [requestContext EXCEPT ![n] = IF ok THEN "live" ELSE @]
    /\ standby' = [standby EXCEPT ![n] = FALSE]
    /\ stateLock' = [stateLock EXCEPT ![n] = Free]
    /\ loopPc' = [loopPc EXCEPT ![n][g] = IF ok THEN "select" ELSE "unlockContinue"]
    /\ last' = Internal
    /\ LoopFrame
    /\ UNCHANGED <<sealed, barrierSealed, loopUuid, loopManual, stopClosed, doneClosed,
                   shutdownGo, backendVars>>

\* postUnseal under the state lock held since the setup; standby = false
\* when it succeeded; the state lock is released
RunStandbyPostUnseal(n, g, ok) ==
    /\ n \in nodes
    /\ loopPc[n][g] = "postUnseal"
    /\ stateLock[n] = <<"runStandby", g>>
    /\ subsystemsUp' = [subsystemsUp EXCEPT ![n] = ok]
    /\ requestContext' = [requestContext EXCEPT ![n] = IF ok THEN "live" ELSE @]
    /\ standby' = [standby EXCEPT ![n] = IF ok THEN FALSE ELSE @]
    /\ stateLock' = [stateLock EXCEPT ![n] = Free]
    /\ loopPc' = [loopPc EXCEPT ![n][g] = IF ok THEN "select" ELSE "unlockContinue"]
    /\ last' = Internal
    /\ LoopFrame
    /\ UNCHANGED <<sealed, barrierSealed, loopUuid, loopManual, stopClosed, doneClosed,
                   shutdownGo, backendVars>>

\* the loop reaches its select and blocks there
RunStandbySelect(n, g) ==
    /\ n \in nodes
    /\ loopPc[n][g] = "select"
    /\ loopPc' = [loopPc EXCEPT ![n][g] = "active"]
    /\ last' = Internal
    /\ LoopFrame
    /\ UNCHANGED <<coreVars, stateLock, loopUuid, loopManual, stopClosed, doneClosed,
                   shutdownGo, backendVars>>

\* a select that does not listen to leader_lost
RunStandbyWaitStop(n, g, lost) ==
    /\ n \in nodes
    /\ loopPc[n][g] = "active"
    /\ stopClosed[n][g]
    /\ loopPc' = [loopPc EXCEPT ![n][g] = "clearLeader"]
    /\ loopManual' = [loopManual EXCEPT ![n][g] = FALSE]
    /\ last' = Internal
    /\ LoopFrame
    /\ UNCHANGED <<coreVars, stateLock, loopUuid, stopClosed, doneClosed, shutdownGo,
                   backendVars>>

\* the select of the active node: leadership lost or the stop channel closed
\* (the manual step-down is received in StepDown)
RunStandbyWait(n, g, lost) ==
    /\ n \in nodes
    /\ loopPc[n][g] = "active"
    /\ IF lost THEN loopUuid[n][g] \in lostCh ELSE stopClosed[n][g]
    /\ loopPc' = [loopPc EXCEPT ![n][g] = "clearLeader"]
    /\ loopManual' = [loopManual EXCEPT ![n][g] = FALSE]
    /\ last' = Internal
    /\ LoopFrame
    /\ UNCHANGED <<coreVars, stateLock, loopUuid, stopClosed, doneClosed, shutdownGo,
                   backendVars>>

\* clearLeader (the delete goes through the barrier) and the cancel of the
\* request context
RunStandbyClearLeader(n, g) ==
    /\ n \in nodes
    /\ loopPc[n][g] = "clearLeader"
    /\ adverts' = IF barrierSealed[n] THEN adverts ELSE adverts \ {<<loopUuid[n][g], n>>}
    /\ requestContext' = [requestContext EXCEPT ![n] = Cancel(@)]
    /\ loopPc' = [loopPc EXCEPT ![n][g] = "preSeal"]
    /\ last' = Internal
    /\ LoopFrame
    /\ UNCHANGED <<sealed, standby, barrierSealed, subsystemsUp, stateLock, loopUuid,
                   loopManual, stopClosed, doneClosed, shutdownGo, lockHolder, lostCh, uuidCtr>>

\* a step-down that runs preSeal but forgets standby = true
RunStandbyPreSealActive(n, g) ==
    /\ n \in nodes
    /\ loopPc[n][g] = "preSeal"
    /\ stateLock[n] = Free
    /\ subsystemsUp' = [subsystemsUp EXCEPT ![n] = FALSE]
    /\ loopPc' = [loopPc EXCEPT ![n][g] = "unlock"]
    /\ last' = Internal
    /\ LoopFrame
    /\ UNCHANGED <<sealed, standby, barrierSealed, requestContext, stateLock, loopUuid,
                   loopManual, stopClosed, doneClosed, shutdownGo, backendVars>>

\* under the state lock: standby = true, preSeal
RunStandbyPreSeal(n, g) ==
    /\ n \in nodes
    /\ loopPc[n][g] = "preSeal"
    /\ stateLock[n] = Free
    /\ standby' = [standby EXCEPT ![n] = TRUE]
    /\ subsystemsUp' = [subsystemsUp EXCEPT ![n] = FALSE]
    /\ loopPc' = [loopPc EXCEPT ![n][g] = "unlock"]
    /\ last' = Internal
    /\ LoopFrame
    /\ UNCHANGED <<sealed, barrierSealed, requestContext, stateLock, loopUuid, loopManual,
                   stopClosed, doneClosed, shutdownGo, backendVars>>

\* lock.Unlock(): give up leadership, then continue, sleep or return
RunStandbyUnlock(n, g) ==
    /\ n \in nodes
    /\ loopPc[n][g] \in {"unlock", "unlockContinue", "unlockReturn"}
    /\ lockHolder' = IF lockHolder = loopUuid[n][g] THEN 0 ELSE lockHolder
    /\ loopPc' = [loopPc EXCEPT ![n][g] =
                    IF @ = "unlockReturn" THEN "exit"
                    ELSE IF @ = "unlock" /\ loopManual[n][g] THEN "sleep" ELSE "top"]
    /\ loopUuid' = [loopUuid EXCEPT ![n][g] = 0]
    /\ loopManual' = [loopManual EXCEPT ![n][g] = FALSE]
    /\ lostCh' = lostCh \ {loopUuid[n][g]}
    /\ last' = Internal
    /\ LoopFrame
    /\ UNCHANGED <<coreVars, stateLock, stopClosed, doneClosed,
                   shutdownGo, uuidCtr, adverts>>

\* time.Sleep(manualStepDownSleepPeriod) has elapsed
RunStandbySleep(n, g) ==
    /\ n \in nodes
    /\ loopPc[n][g] = "sleep"
    /\ loopPc' = [loopPc EXCEPT ![n][g] = "top"]
    /\ last' = Internal
    /\ LoopFrame
    /\ UNCHANGED <<coreVars, stateLock, loopUuid, loopManual, stopClosed, doneClosed,
                   shutdownGo, backendVars>>

\* return from runStandby: the deferred close of the done channel
RunStandbyReturn(n, g) ==
    /\ n \in nodes
    /\ loopPc[n][g] = "exit"
    /\ doneClosed' = [doneClosed EXCEPT ![n][g] = TRUE]
    /\ loopPc' = [loopPc EXCEPT ![n][g] = "done"]
    /\ last' = Internal
    /\ LoopFrame
    /\ UNCHANGED <<coreVars, stateLock, loopUuid, loopManual, stopClosed, shutdownGo,
                   backendVars>>

\* ---------------------------------------------------- periodicCheckKeyUpgrade

\* a tick of the key-upgrade worker: whether it read core/poison-pill, whether
\* it ran checkKeyUpgrades and whether it started `go c.Shutdown()`
TickOp(n, pill, walk, shutdown) ==
    [Op("KeyUpgradeTick", n, 0) EXCEPT !.pill = pill, !.walk = walk, !.sent = shutdown]

\* a tick of periodicCheckKeyUpgrade, which runs from the start of runStandby
\* to its return: nothing on the active node; on a standby the poison pill
\* starts a shutdown, and without it the key upgrades are checked
KeyUpgradeTick(n, g) ==
    /\ n \in nodes
    /\ loopPc[n][g] \notin {"idle", "done"}
    /\ stateLock[n] = Free
    /\ IF ~standby[n]
       THEN /\ last' = TickOp(n, FALSE, FALSE, FALSE)
            /\ UNCHANGED shutdownGo
       ELSE IF poisonPill /\ ~barrierSealed[n]
       THEN /\ shutdownGo[n] + sealGo[n] < MaxShutdown
            /\ shutdownGo' = [shutdownGo EXCEPT ![n] = @ + 1]
            /\ last' = TickOp(n, TRUE, FALSE, TRUE)
       ELSE /\ last' = TickOp(n, TRUE, TRUE, FALSE)
            /\ UNCHANGED shutdownGo
    /\ UNCHANGED <<configVars, stepVars, leaderVars, poisonPill, unlockVars, coreVars, stateLock, loopVars,
                   sealGo, sealWait, sealCall, backendVars>>

\* core/poison-pill is written to the storage the cores share
WritePoisonPill ==
    /\ ~poisonPill
    /\ poisonPill' = TRUE
    /\ last' = Internal
    /\ UNCHANGED <<configVars, stepVars, leaderVars, unlockVars, coreVars, stateLock, loopVars, sealVars,
                   backendVars>>

\* ------------------------------------------------------------------ Leader

\* the result of a Leader call: is_leader, the redirect address, the error and
\* the uuid that lock.Value() gave (0: the lock is not held)
LeaderOp(n, isLeader, addr, err, uuid) ==
    [Op("Leader", n, 0) EXCEPT !.leader = isLeader, !.addr = addr, !.err = err, !.uuid = uuid]

\* Leader up to the comparison with the cached leader: done with a result, or
\* on with the refresh and the copies of the cache it took
LeaderFirst(n) ==
    IF LeaderErr(sealed[n], ha) # "nil"
    THEN [done |-> TRUE, res |-> LeaderOp(n, FALSE, "", LeaderErr(sealed[n], ha), 0)]
    ELSE IF ~standby[n] THEN [done |-> TRUE, res |-> LeaderOp(n, TRUE, n, "nil", 0)]
    ELSE IF lockHolder = 0 THEN [done |-> TRUE, res |-> LeaderOp(n, FALSE, "", "nil", 0)]
    ELSE IF lockHolder = leaderCache[n].uuid /\ leaderCache[n].addr # ""
    THEN [done |-> TRUE, res |-> LeaderOp(n, FALSE, leaderCache[n].addr, "nil", lockHolder)]
    ELSE [done |-> FALSE, call |-> [uuid |-> lockHolder, addr |-> leaderCache[n].addr,
                                  cluster |-> leaderCache[n].cluster]]

\* Leader under clusterLeaderParamsLock: the cache is compared again, and the
\* copies taken before the lock are returned when it matches now; otherwise
\* the advertisement of the uuid is read through the barrier and cached
LeaderSecond(n, call) ==
    IF call.uuid = leaderCache[n].uuid /\ leaderCache[n].addr # ""
    THEN [res |-> LeaderOp(n, FALSE, call.addr, "nil", call.uuid), cache |-> leaderCache[n]]
    ELSE IF barrierSealed[n]
    THEN [res |-> LeaderOp(n, FALSE, "", "barrier", call.uuid), cache |-> leaderCache[n]]
    ELSE IF \A m \in Node : <<call.uuid, m>> \notin adverts
    THEN [res |-> LeaderOp(n, FALSE, "", "nil", call.uuid), cache |-> leaderCache[n]]
    ELSE LET m == CHOOSE m \in Node : <<call.uuid, m>> \in adverts
         IN [res |-> LeaderOp(n, FALSE, m, "nil", call.uuid),
             cache |-> [uuid |-> call.uuid, addr |-> m, cluster |-> ClusterAddr(m)]]

\* the state lock is read-held by a Leader call
ReadHeld(n) == stateLock[n] = <<"Leader", 0>>

LeaderFrame ==
    UNCHANGED <<configVars, stepVars, unlockVars, coreVars, loopVars, sealVars, backendVars, poisonPill>>

\* a Leader call that runs from its first to its last line; the state lock
\* may be read-held by another Leader call
Leader(n) ==
    /\ n \in nodes
    /\ (stateLock[n] = Free \/ ReadHeld(n))
    /\ LET first == LeaderFirst(n)
       IN IF first.done
          THEN /\ last' = first.res
               /\ UNCHANGED leaderCache
          ELSE /\ last' = LeaderSecond(n, first.call).res
               /\ leaderCache' = [leaderCache EXCEPT ![n] = LeaderSecond(n, first.call).cache]
    /\ UNCHANGED <<stateLock, leaderCall>>
    /\ LeaderFrame

\* a Leader call that found another leader than the cached one and stops
\* before it takes clusterLeaderParamsLock, the state lock read-held
LeaderBegin(n) ==
    /\ n \in nodes
    /\ stateLock[n] = Free
    /\ ~LeaderFirst(n).done
    /\ leaderCall' = [leaderCall EXCEPT ![n] = LeaderFirst(n).call]
    /\ stateLock' = [stateLock EXCEPT ![n] = <<"Leader", 0>>]
    /\ last' = Internal
    /\ UNCHANGED leaderCache
    /\ LeaderFrame

\* the rest of a call that takes the state lock again under clusterLeaderParamsLock
LeaderFinishRelock(n) ==
    /\ n \in nodes
    /\ ReadHeld(n)
    /\ stateLock[n] = Free
    /\ last' = LeaderSecond(n, leaderCall[n]).res
    /\ leaderCache' = [leaderCache EXCEPT ![n] = LeaderSecond(n, leaderCall[n]).cache]
    /\ leaderCall' = [leaderCall EXCEPT ![n] = NoLeader]
    /\ stateLock' = [stateLock EXCEPT ![n] = Free]
    /\ LeaderFrame

\* the rest of that call
LeaderFinish(n) ==
    /\ n \in nodes
    /\ ReadHeld(n)
    /\ last' = LeaderSecond(n, leaderCall[n]).res
    /\ leaderCache' = [leaderCache EXCEPT ![n] = LeaderSecond(n, leaderCall[n]).cache]
    /\ leaderCall' = [leaderCall EXCEPT ![n] = NoLeader]
    /\ stateLock' = [stateLock EXCEPT ![n] = Free]
    /\ LeaderFrame

\* a refresh that caches the redirect address whatever step fails
LeaderRefreshFailsCaching(n, out) ==
    /\ n \in nodes
    /\ ReadHeld(n)
    /\ ~(leaderCall[n].uuid = leaderCache[n].uuid /\ leaderCache[n].addr # "")
    /\ ~barrierSealed[n]
    /\ \E m \in Node :
         /\ <<leaderCall[n].uuid, m>> \in adverts
         /\ last' = LeaderOp(n, FALSE, IF out = "oldAdv" THEN m ELSE "",
                             IF out = "oldAdv" THEN "nil" ELSE out, leaderCall[n].uuid)
         /\ leaderCache' = [leaderCache EXCEPT ![n] = [uuid |-> leaderCall[n].uuid, addr |-> m, cluster |-> ""]]
    /\ leaderCall' = [leaderCall EXCEPT ![n] = NoLeader]
    /\ stateLock' = [stateLock EXCEPT ![n] = Free]
    /\ LeaderFrame

\* the rest of a Leader call whose refresh does not go through: the entry is
\* not JSON and is taken as a bare redirect address (oldAdv), which is cached
\* without the two steps that follow; loadLocalClusterTLS fails (tls);
\* refreshRequestForwardingConnection fails (forward)
LeaderRefreshFails(n, out) ==
    /\ n \in nodes
    /\ ReadHeld(n)
    /\ ~(leaderCall[n].uuid = leaderCache[n].uuid /\ leaderCache[n].addr # "")
    /\ ~barrierSealed[n]
    /\ \E m \in Node :
         /\ <<leaderCall[n].uuid, m>> \in adverts
         /\ last' = LeaderOp(n, FALSE, IF out = "oldAdv" THEN m ELSE "",
                             IF out = "oldAdv" THEN "nil" ELSE out, leaderCall[n].uuid)
         /\ leaderCache' = [leaderCache EXCEPT ![n] =
                               IF out = "oldAdv" THEN [uuid |-> leaderCall[n].uuid, addr |-> m, cluster |-> ""]
                               ELSE @]
    /\ leaderCall' = [leaderCall EXCEPT ![n] = NoLeader]
    /\ stateLock' = [stateLock EXCEPT ![n] = Free]
    /\ LeaderFrame

\* ------------------------------------------------------------- HA backend

\* the backend takes the lock from its holder and closes its leader_lost channel
LeaderLost(u) ==
    /\ u \in Uuid
    /\ lockHolder = u
    /\ lockHolder' = 0
    /\ lostCh' = lostCh \cup {u}
    /\ last' = Internal
    /\ UNCHANGED <<configVars, stepVars, leaderVars, poisonPill, unlockVars, coreVars, stateLock, loopVars, sealVars,
                   uuidCtr, adverts>>

\* ---------------------------------------------------------- specification

Next ==
    \/ \E n \in Node, key \in keys : Unseal(n, key)
    \/ \E n \in Node : ResetUnsealProcess(n)
    \/ \E n \in Node, auth \in AuthResults : Seal(n, auth)
    \/ \E n \in Node : Shutdown(n)
    \/ \E n \in Node : ShutdownGo(n)
    \/ \E n \in Node : SealInternal(n)
    \/ \E n \in Node, g \in Gen : SealInternalResume(n, g)
    \/ \E n \in Node, auth \in AuthResults : StepDown(n, auth)
    \/ \E n \in Node, g \in Gen, uuidOK \in BOOLEAN : RunStandbyTop(n, g, uuidOK)
    \/ \E n \in Node, g \in Gen, stop \in BOOLEAN : AcquireLock(n, g, stop)
    \/ \E n \in Node, g \in Gen, out \in {"ok", "keyUpgrades", "cluster", "advertise"} :
          RunStandbySetup(n, g, out)
    \/ \E n \in Node, g \in Gen, ok \in BOOLEAN : RunStandbyPostUnseal(n, g, ok)
    \/ \E n \in Node, g \in Gen : RunStandbySelect(n, g)
    \/ \E n \in Node, g \in Gen, lost \in BOOLEAN : RunStandbyWait(n, g, lost)
    \/ \E n \in Node, g \in Gen : RunStandbyClearLeader(n, g)
    \/ \E n \in Node, g \in Gen : RunStandbyPreSeal(n, g)
    \/ \E n \in Node, g \in Gen : RunStandbyUnlock(n, g)
    \/ \E n \in Node, g \in Gen : RunStandbySleep(n, g)
    \/ \E n \in Node, g \in Gen : RunStandbyReturn(n, g)
    \/ \E u \in Uuid : LeaderLost(u)

Spec == Init /\ [][Next]_vars

\* the fleet: the operations of the core, Seal and StepDown called with a root token
NextFleet ==
    \/ \E n \in Node, key \in keys : Unseal(n, key)
    \/ \E n \in Node : ResetUnsealProcess(n)
    \/ \E n \in Node : Seal(n, RootRequest)
    \/ \E n \in Node : Shutdown(n)
    \/ \E n \in Node : ShutdownGo(n)
    \/ \E n \in Node : SealInternal(n)
    \/ \E n \in Node, g \in Gen : SealInternalResume(n, g)
    \/ \E n \in Node : StepDown(n, RootRequest)
    \/ \E n \in Node, g \in Gen, uuidOK \in BOOLEAN : RunStandbyTop(n, g, uuidOK)
    \/ \E n \in Node, g \in Gen, stop \in BOOLEAN : AcquireLock(n, g, stop)
    \/ \E n \in Node, g \in Gen, out \in {"ok", "keyUpgrades", "cluster", "advertise"} :
          RunStandbySetup(n, g, out)
    \/ \E n \in Node, g \in Gen, ok \in BOOLEAN : RunStandbyPostUnseal(n, g, ok)
    \/ \E n \in Node, g \in Gen : RunStandbySelect(n, g)
    \/ \E n \in Node, g \in Gen, lost \in BOOLEAN : RunStandbyWait(n, g, lost)
    \/ \E n \in Node, g \in Gen : RunStandbyClearLeader(n, g)
    \/ \E n \in Node, g \in Gen : RunStandbyPreSeal(n, g)
    \/ \E n \in Node, g \in Gen : RunStandbyUnlock(n, g)
    \/ \E n \in Node, g \in Gen : RunStandbySleep(n, g)
    \/ \E n \in Node, g \in Gen : RunStandbyReturn(n, g)
    \/ \E u \in Uuid : LeaderLost(u)

SpecFleet == InitFleet /\ [][NextFleet]_vars

SpecAuth == InitAuth /\ [][Next]_vars

\* the fleet with the callers of Leader and without seals and step-downs
NextLeader ==
    \/ \E n \in Node, key \in keys : Unseal(n, key)
    \/ \E n \in Node, g \in Gen, uuidOK \in BOOLEAN : RunStandbyTop(n, g, uuidOK)
    \/ \E n \in Node, g \in Gen, stop \in BOOLEAN : AcquireLock(n, g, stop)
    \/ \E n \in Node, g \in Gen, out \in {"ok", "keyUpgrades", "cluster", "advertise"} :
          RunStandbySetup(n, g, out)
    \/ \E n \in Node, g \in Gen, ok \in BOOLEAN : RunStandbyPostUnseal(n, g, ok)
    \/ \E n \in Node, g \in Gen : RunStandbySelect(n, g)
    \/ \E n \in Node, g \in Gen, lost \in BOOLEAN : RunStandbyWait(n, g, lost)
    \/ \E n \in Node, g \in Gen : RunStandbyClearLeader(n, g)
    \/ \E n \in Node, g \in Gen : RunStandbyPreSeal(n, g)
    \/ \E n \in Node, g \in Gen : RunStandbyUnlock(n, g)
    \/ \E n \in Node, g \in Gen : RunStandbyReturn(n, g)
    \/ \E u \in Uuid : LeaderLost(u)
    \/ \E n \in Node : Leader(n)
    \/ \E n \in Node : LeaderBegin(n)
    \/ \E n \in Node : LeaderFinish(n)

SpecLeader == InitFleet /\ [][NextLeader]_vars

\* the fleet whose standbys fail to refresh the leader cache
NextCache ==
    \/ NextLeader
    \/ \E n \in Node, out \in {"oldAdv", "tls", "forward"} : LeaderRefreshFails(n, out)

SpecCache == InitFleet /\ [][NextCache]_vars

\* the core with its key-upgrade worker and the poison pill; of the API only
\* Unseal is called
NextLive ==
    \/ Next
    \/ \E n \in Node, g \in Gen : KeyUpgradeTick(n, g)
    \/ WritePoisonPill

\* every goroutine of the core that can take a step takes it: the standby
\* loops, the goroutines that seal, the sleep that elapses. The callers of
\* the API, the backend and the ticks are not obliged to act
Fairness ==
    /\ \A n \in Node :
         /\ WF_vars(ShutdownGo(n))
         /\ WF_vars(SealInternal(n))
    /\ \A n \in Node, g \in Gen :
         /\ WF_vars(SealInternalResume(n, g))
         /\ WF_vars(\E uuidOK \in BOOLEAN : RunStandbyTop(n, g, uuidOK))
         /\ WF_vars(\E stop \in BOOLEAN : AcquireLock(n, g, stop))
         /\ WF_vars(\E out \in {"ok", "keyUpgrades", "cluster", "advertise"} :
                      RunStandbySetup(n, g, out))
         /\ WF_vars(\E ok \in BOOLEAN : RunStandbyPostUnseal(n, g, ok))
         /\ WF_vars(RunStandbySelect(n, g))
         /\ WF_vars(\E lost \in BOOLEAN : RunStandbyWait(n, g, lost))
         /\ WF_vars(RunStandbyClearLeader(n, g))
         /\ WF_vars(RunStandbyPreSeal(n, g))
         /\ WF_vars(RunStandbyUnlock(n, g))
         /\ WF_vars(RunStandbySleep(n, g))
         /\ WF_vars(RunStandbyReturn(n, g))

SpecLive == InitLive /\ [][NextLive]_vars /\ Fairness

SpecFair == InitLive /\ [][Next]_vars /\ Fairness

\* the core with its API, its standby loops, its key-upgrade worker and the
\* callers of Leader, the leader-refresh worker among them
NextLock ==
    \/ NextLive
    \/ \E n \in Node : Leader(n)
    \/ \E n \in Node : LeaderBegin(n)
    \/ \E n \in Node : LeaderFinish(n)

SpecLock == InitLive /\ [][NextLock]_vars

\* ------------------------------------------- acquireLock's retry after errors

\* acquireLock: lock.Lock returned an error, the loop waits lockRetryInterval
AcquireLockError(n, g) ==
    /\ n \in nodes
    /\ loopPc[n][g] = "acquire"
    /\ loopPc' = [loopPc EXCEPT ![n][g] = "retryWait"]
    /\ last' = Internal
    /\ LoopFrame
    /\ UNCHANGED <<coreVars, stateLock, loopUuid, loopManual, stopClosed, doneClosed,
                   shutdownGo, backendVars>>

\* a wait that ends the loop when the interval has elapsed
AcquireLockRetryGiveUp(n, g, stop) ==
    /\ n \in nodes
    /\ loopPc[n][g] = "retryWait"
    /\ stop => stopClosed[n][g]
    /\ loopPc' = [loopPc EXCEPT ![n][g] = "exit"]
    /\ last' = Internal
    /\ LoopFrame
    /\ UNCHANGED <<coreVars, stateLock, loopUuid, loopManual, stopClosed, doneClosed,
                   shutdownGo, backendVars>>

\* acquireLock: the interval has elapsed and the acquisition is attempted
\* again, or the stop channel ends the wait and acquireLock returns nil
AcquireLockRetry(n, g, stop) ==
    /\ n \in nodes
    /\ loopPc[n][g] = "retryWait"
    /\ stop => stopClosed[n][g]
    /\ loopPc' = [loopPc EXCEPT ![n][g] = IF stop THEN "exit" ELSE "acquire"]
    /\ last' = Internal
    /\ LoopFrame
    /\ UNCHANGED <<coreVars, stateLock, loopUuid, loopManual, stopClosed, doneClosed,
                   shutdownGo, backendVars>>

\* the core whose HA backend can fail the acquisition of the lock
NextRetry ==
    \/ Next
    \/ \E n \in Node, g \in Gen : AcquireLockError(n, g)
    \/ \E n \in Node, g \in Gen, stop \in BOOLEAN : AcquireLockRetry(n, g, stop)

SpecRetry == InitLive /\ [][NextRetry]_vars

\* a lookup request is served
PathLookupGroupUpdate(type, id, name, db, read) ==
    /\ db = "none" => read # "response"
    /\ LET r == pathLookupGroupUpdate(type, id, name, db, read)
       IN lookupCall' = [called |-> TRUE, type |-> type, id |-> id, name |-> name, db |-> db,
                         read |-> read, resp |-> r.resp, err |-> r.err, site |-> r.site]
    /\ UNCHANGED <<configVars, life, readLock, upgrade, sweep, leaderVars, poisonPill, unlockVars, coreVars, stateLock,
                   loopVars, sealVars, backendVars, last>>

\* the fields of the request; memDBGroupByID and memDBGroupByName find the
\* group, no group, or fail
NextLookup ==
    \E type \in {"", "id", "name", "ID", "Name", "alias", "entity"},
       id \in {"", "g1", "g2"}, name \in {"", "admins", "id"},
       db \in {"group", "none", "error"}, read \in {"response", "nil", "error"} :
        PathLookupGroupUpdate(type, id, name, db, read)

\* the identity store answering group lookups
SpecLookup == InitAuth /\ [][NextLookup]_vars

\* ------------------------------------------- the workers of the standby loop

\* a return that closes the done channel before it stops the workers
RunStandbyJoinEarlyClose(n, g) ==
    /\ n \in nodes
    /\ loopPc[n][g] \in {"exit", "rotateDone", "leaderDone"}
    /\ loopPc' = [loopPc EXCEPT ![n][g] = CASE @ = "exit" -> "waitRotate"
                                            [] @ = "rotateDone" -> "waitLeader"
                                            [] OTHER -> "done"]
    /\ doneClosed' = [doneClosed EXCEPT ![n][g] = TRUE]
    /\ last' = Internal
    /\ LoopFrame
    /\ UNCHANGED <<coreVars, stateLock, loopUuid, loopManual, stopClosed, shutdownGo,
                   backendVars>>

\* return from runStandby, its deferred calls last in first out: close
\* keyRotateStop and wait for keyRotateDone, close checkLeaderStop and wait for
\* checkLeaderDone, then close manualStepDownCh and the done channel
RunStandbyJoin(n, g) ==
    /\ n \in nodes
    /\ loopPc[n][g] \in {"exit", "rotateDone", "leaderDone"}
    /\ loopPc' = [loopPc EXCEPT ![n][g] = CASE @ = "exit" -> "waitRotate"
                                            [] @ = "rotateDone" -> "waitLeader"
                                            [] OTHER -> "done"]
    /\ doneClosed' = [doneClosed EXCEPT ![n][g] = (loopPc[n][g] = "leaderDone") \/ @]
    /\ last' = Internal
    /\ LoopFrame
    /\ UNCHANGED <<coreVars, stateLock, loopUuid, loopManual, stopClosed, shutdownGo,
                   backendVars>>

\* periodicCheckKeyUpgrade and periodicLeaderRefresh: the worker receives from
\* its stop channel and returns, its deferred call closes its done channel
WorkerStop(n, g) ==
    /\ n \in nodes
    /\ loopPc[n][g] \in {"waitRotate", "waitLeader"}
    /\ loopPc' = [loopPc EXCEPT ![n][g] = IF @ = "waitRotate" THEN "rotateDone" ELSE "leaderDone"]
    /\ last' = Internal
    /\ LoopFrame
    /\ UNCHANGED <<coreVars, stateLock, loopUuid, loopManual, stopClosed, doneClosed,
                   shutdownGo, backendVars>>

\* the core with the return of the standby loop in the steps of its workers
NextWorkers ==
    \/ \E n \in Node, key \in keys : Unseal(n, key)
    \/ \E n \in Node : ResetUnsealProcess(n)
    \/ \E n \in Node, auth \in AuthResults : Seal(n, auth)
    \/ \E n \in Node : Shutdown(n)
    \/ \E n \in Node : ShutdownGo(n)
    \/ \E n \in Node : SealInternal(n)
    \/ \E n \in Node, g \in Gen : SealInternalResume(n, g)
    \/ \E n \in Node, auth \in AuthResults : StepDown(n, auth)
    \/ \E n \in Node, g \in Gen, uuidOK \in BOOLEAN : RunStandbyTop(n, g, uuidOK)
    \/ \E n \in Node, g \in Gen, stop \in BOOLEAN : AcquireLock(n, g, stop)
    \/ \E n \in Node, g \in Gen, out \in {"ok", "keyUpgrades", "cluster", "advertise"} :
          RunStandbySetup(n, g, out)
    \/ \E n \in Node, g \in Gen, ok \in BOOLEAN : RunStandbyPostUnseal(n, g, ok)
    \/ \E n \in Node, g \in Gen : RunStandbySelect(n, g)
    \/ \E n \in Node, g \in Gen, lost \in BOOLEAN : RunStandbyWait(n, g, lost)
    \/ \E n \in Node, g \in Gen : RunStandbyClearLeader(n, g)
    \/ \E n \in Node, g \in Gen : RunStandbyPreSeal(n, g)
    \/ \E n \in Node, g \in Gen : RunStandbyUnlock(n, g)
    \/ \E n \in Node, g \in Gen : RunStandbySleep(n, g)
    \/ \E n \in Node, g \in Gen : RunStandbyJoin(n, g)
    \/ \E n \in Node, g \in Gen : WorkerStop(n, g)
    \/ \E u \in Uuid : LeaderLost(u)

SpecWorkers == InitLive /\ [][NextWorkers]_vars

\* ------------------------------------------------ the calls of the two

\* every variable the steps of postUnseal and preSeal leave alone
StepFrame ==
    UNCHANGED <<configVars, leaderVars, poisonPill, unlockVars, sealed, standby, barrierSealed,
                stateLock, loopVars, sealVars, backendVars, lookupCall, readLock, upgrade, sweep, last>>

\* a call of postUnseal by unsealInternal or by the standby loop: step failAt
\* fails (0: none), and so do the teardown steps in fails of the deferred
\* preSeal; the request context is made when no step failed
PostUnsealCall(n, failAt, fails) ==
    /\ n \in nodes
    /\ failAt \in FailPoints(ha) \cup {0}
    /\ fails \subseteq PreSealFallible
    /\ failAt = 0 => fails = {}
    /\ life' = postUnseal(life, ha, failAt, fails)
    /\ subsystemsUp' = [subsystemsUp EXCEPT ![n] = (failAt = 0)]
    /\ requestContext' = [requestContext EXCEPT ![n] = IF failAt = 0 THEN "live" ELSE @]
    /\ StepFrame

\* a call of preSeal by sealInternal or by the standby loop
PreSealCall(n, fails) ==
    /\ n \in nodes
    /\ fails \subseteq PreSealFallible
    /\ life.preCalls < MaxPreSeal
    /\ life' = preSeal(life, fails)
    /\ subsystemsUp' = [subsystemsUp EXCEPT ![n] = FALSE]
    /\ UNCHANGED requestContext
    /\ StepFrame

\* a rekey of the barrier or of the recovery key is started and holds progress
RekeyUpdate(kind) ==
    /\ ~life.rekey[kind]
    /\ life' = [life EXCEPT !.op = "rekey", !.rekey[kind] = TRUE]
    /\ UNCHANGED <<subsystemsUp, requestContext>>
    /\ StepFrame

\* the request context is cancelled by Seal, Shutdown or the standby loop
CancelContext(n) ==
    /\ n \in nodes
    /\ requestContext[n] = "live"
    /\ requestContext' = [requestContext EXCEPT ![n] = Cancel(@)]
    /\ life' = [life EXCEPT !.op = "cancel"]
    /\ UNCHANGED subsystemsUp
    /\ StepFrame

\* the failures a preSeal call draws: none, one step, two steps, all of them
FailSets ==
    {{}} \cup {{x} : x \in PreSealFallible} \cup {PreSealFallible}
    \cup {{"teardownAudits", "stopRollback"}}

\* the failures the preSeal deferred by postUnseal draws
DeferFailSets == {{}, {"stopExpiration"}}

NextSteps ==
    \/ \E n \in Node, failAt \in 0..19, fails \in DeferFailSets : PostUnsealCall(n, failAt, fails)
    \/ \E n \in Node, fails \in FailSets : PreSealCall(n, fails)
    \/ \E kind \in {"barrier", "recovery"} : RekeyUpdate(kind)
    \/ \E n \in Node : CancelContext(n)

\* one core, with and without an HA backend, on which postUnseal and preSeal
\* are called
SpecSteps == InitAuth /\ [][NextSteps]_vars

\* Shutdown called on an unsealed core
ShutdownUnsealed(n) ==
    /\ ~sealed[n]
    /\ Shutdown(n)

\* the core whose only seals are those of Shutdown calls made while it is
\* unsealed: no Seal, no StepDown, no failing key upgrade
NextShutdown ==
    \/ \E n \in Node, key \in keys : Unseal(n, key)
    \/ \E n \in Node : ShutdownUnsealed(n)
    \/ \E n \in Node : SealInternal(n)
    \/ \E n \in Node, g \in Gen : SealInternalResume(n, g)
    \/ \E n \in Node, g \in Gen, uuidOK \in BOOLEAN : RunStandbyTop(n, g, uuidOK)
    \/ \E n \in Node, g \in Gen, stop \in BOOLEAN : AcquireLock(n, g, stop)
    \/ \E n \in Node, g \in Gen, out \in {"ok", "cluster", "advertise"} :
          RunStandbySetup(n, g, out)
    \/ \E n \in Node, g \in Gen, ok \in BOOLEAN : RunStandbyPostUnseal(n, g, ok)
    \/ \E n \in Node, g \in Gen : RunStandbySelect(n, g)
    \/ \E n \in Node, g \in Gen, lost \in BOOLEAN : RunStandbyWait(n, g, lost)
    \/ \E n \in Node, g \in Gen : RunStandbyClearLeader(n, g)
    \/ \E n \in Node, g \in Gen : RunStandbyPreSeal(n, g)
    \/ \E n \in Node, g \in Gen : RunStandbyUnlock(n, g)
    \/ \E n \in Node, g \in Gen : RunStandbyReturn(n, g)
    \/ \E u \in Uuid : LeaderLost(u)

SpecShutdown == InitAuth /\ [][NextShutdown]_vars

\* SealWithRequest: the read lock, c.sealed, then sealInitCommon, which
\* releases the read lock and starts the goroutine that seals
SealWithRequest(n, auth) ==
    /\ n \in nodes
    /\ stateLock[n] = Free
    /\ IF sealed[n]
       THEN /\ readLock' = [site |-> "sealed", err |-> "nil", ops |-> <<"RLock", "RUnlock">>]
            /\ last' = AuthOp("Seal", n, auth, "nil", FALSE)
            /\ UNCHANGED <<requestContext, sealGo, sealCall>>
       ELSE LET r == sealInitCommon(n, auth)
            IN /\ readLock' = [r EXCEPT !.ops = <<"RLock">> \o @]
               /\ IF r.site # "seal"
                  THEN /\ last' = AuthOp("Seal", n, auth, r.err, FALSE)
                       /\ UNCHANGED <<requestContext, sealGo, sealCall>>
                  ELSE /\ sealGo[n] = 0
                       /\ requestContext' = [requestContext EXCEPT ![n] = Cancel(@)]
                       /\ sealGo' = [sealGo EXCEPT ![n] = @ + 1]
                       /\ sealCall' = [sealCall EXCEPT ![n] = traceAuth]
                       /\ last' = AuthOp("Seal", n, auth, "nil", TRUE)
    /\ UNCHANGED <<configVars, life, lookupCall, upgrade, sweep, leaderVars, poisonPill, unlockVars, sealed, standby,
                   barrierSealed, subsystemsUp, stateLock, loopVars, shutdownGo, sealWait, backendVars>>

\* the core sealed by requests and by Shutdown
NextSealInit ==
    \/ NextShutdown
    \/ \E n \in Node, auth \in AuthResults : SealWithRequest(n, auth)

SpecSealInit == InitAuth /\ [][NextSealInit]_vars

\* ------------------------------------------- the key upgrades of a new leader

\* after the lock was acquired: the state lock, performKeyUpgrades with its
\* steps, setupCluster, advertiseLeader
RunStandbySetupUpgrades(n, g, out) ==
    /\ n \in nodes
    /\ loopPc[n][g] = "acquired"
    /\ stateLock[n] = Free
    /\ barrierSealed[n] => out = "walk"
    /\ upgrade' = performKeyUpgrades(upgrade, out)
    /\ LET res == IF out \in {"ok", "cluster", "advertise"} THEN out ELSE "keyUpgrades"
       IN /\ shutdownGo' = [shutdownGo EXCEPT ![n] = IF res = "keyUpgrades" THEN @ + 1 ELSE @]
          /\ adverts' = IF res = "ok" THEN adverts \cup {<<loopUuid[n][g], n>>} ELSE adverts
          /\ stateLock' = [stateLock EXCEPT ![n] = IF res = "ok" THEN <<"runStandby", g>> ELSE @]
          /\ loopPc' = [loopPc EXCEPT ![n][g] =
                          IF res = "ok" THEN "postUnseal"
                          ELSE IF res = "keyUpgrades" THEN "unlockReturn" ELSE "unlockContinue"]
    /\ last' = Internal
    /\ UNCHANGED <<configVars, life, lookupCall, readLock, sweep, leaderVars, poisonPill, unlockVars,
                   gen, sealGo, sealWait, sealCall>>
    /\ UNCHANGED <<coreVars, loopUuid, loopManual, stopClosed, doneClosed,
                   lockHolder, lostCh, uuidCtr>>

\* the active node rotates the keyring: the keyring of the next term is
\* stored and loaded, and the upgrade entry of that term is written
Rotate(n) ==
    /\ n \in nodes
    /\ ~sealed[n] /\ ~standby[n] /\ ~barrierSealed[n] /\ subsystemsUp[n]
    /\ stateLock[n] = Free
    /\ upgrade.stored < MaxTerm
    /\ upgrade' = [upgrade EXCEPT !.stored = @ + 1, !.term = upgrade.stored + 1,
                                  !.entries = @ \cup {upgrade.stored + 1},
                                  !.op = "rotate", !.fired = {}]
    /\ UNCHANGED <<configVars, life, lookupCall, readLock, sweep, leaderVars, poisonPill, unlockVars,
                   coreVars, stateLock, loopVars, sealVars, backendVars, last>>

\* a timer that deletes its entries whatever the state of the barrier
UpgradeCleanupSealed(n, list) ==
    /\ n \in nodes
    /\ list \in upgrade.timers
    /\ upgrade' = [upgrade EXCEPT !.timers = @ \ {list},
                                  !.entries = @ \ list,
                                  !.op = "cleanup", !.fired = list]
    /\ UNCHANGED <<configVars, life, lookupCall, readLock, sweep, leaderVars, poisonPill, unlockVars,
                   coreVars, stateLock, loopVars, sealVars, backendVars, last>>

\* the grace timer of scheduleUpgradeCleanup fires: on an unsealed barrier it
\* deletes the entries it listed when it was scheduled
UpgradeCleanup(n, list) ==
    /\ n \in nodes
    /\ list \in upgrade.timers
    /\ upgrade' = [upgrade EXCEPT !.timers = @ \ {list},
                                  !.entries = IF barrierSealed[n] THEN @ ELSE @ \ list,
                                  !.op = "cleanup", !.fired = list]
    /\ UNCHANGED <<configVars, life, lookupCall, readLock, sweep, leaderVars, poisonPill, unlockVars,
                   coreVars, stateLock, loopVars, sealVars, backendVars, last>>

\* one HA core that wins and loses the lock, rotates its keyring and is shut down
NextUpgrade ==
    \/ \E n \in Node, key \in keys : Unseal(n, key)
    \/ \E n \in Node : ShutdownUnsealed(n)
    \/ \E n \in Node : SealInternal(n)
    \/ \E n \in Node, g \in Gen : SealInternalResume(n, g)
    \/ \E n \in Node, g \in Gen, uuidOK \in BOOLEAN : RunStandbyTop(n, g, uuidOK)
    \/ \E n \in Node, g \in Gen, stop \in BOOLEAN : AcquireLock(n, g, stop)
    \/ \E n \in Node, g \in Gen,
          out \in {"ok", "walk", "reloadMaster", "reloadKeyring", "list", "cluster", "advertise"} :
          RunStandbySetupUpgrades(n, g, out)
    \/ \E n \in Node, g \in Gen, ok \in BOOLEAN : RunStandbyPostUnseal(n, g, ok)
    \/ \E n \in Node, g \in Gen : RunStandbySelect(n, g)
    \/ \E n \in Node, g \in Gen, lost \in BOOLEAN : RunStandbyWait(n, g, lost)
    \/ \E n \in Node, g \in Gen : RunStandbyClearLeader(n, g)
    \/ \E n \in Node, g \in Gen : RunStandbyPreSeal(n, g)
    \/ \E n \in Node, g \in Gen : RunStandbyUnlock(n, g)
    \/ \E n \in Node, g \in Gen : RunStandbyReturn(n, g)
    \/ \E u \in Uuid : LeaderLost(u)
    \/ \E n \in Node : Rotate(n)
    \/ \E n \in Node, list \in SUBSET (2..MaxTerm) : UpgradeCleanup(n, list)

SpecUpgrade == InitLive /\ [][NextUpgrade]_vars

\* ------------------------------------------------------- cleanLeaderPrefix

\* after the lock was acquired: the state lock, performKeyUpgrades,
\* setupCluster, advertiseLeader, which starts cleanLeaderPrefix before it
\* writes the advertisement
RunStandbySetupSweep(n, g, out) ==
    /\ n \in nodes
    /\ loopPc[n][g] = "acquired"
    /\ stateLock[n] = Free
    /\ out \in SetupResults(n)
    /\ sweep' = IF out \in {"ok", "advertise"}
                THEN [sweep EXCEPT ![loopUuid[n][g]] = [pc |-> "started", node |-> n, keys |-> {}, deleted |-> 0]]
                ELSE sweep
    /\ shutdownGo' = [shutdownGo EXCEPT ![n] = IF out = "keyUpgrades" THEN @ + 1 ELSE @]
    /\ adverts' = IF out = "ok" THEN adverts \cup {<<loopUuid[n][g], n>>} ELSE adverts
    /\ stateLock' = [stateLock EXCEPT ![n] = IF out = "ok" THEN <<"runStandby", g>> ELSE @]
    /\ loopPc' = [loopPc EXCEPT ![n][g] =
                    IF out = "ok" THEN "postUnseal"
                    ELSE IF out = "keyUpgrades" THEN "unlockReturn" ELSE "unlockContinue"]
    /\ last' = Internal
    /\ UNCHANGED <<configVars, life, lookupCall, readLock, upgrade, leaderVars, poisonPill,
                 unlockVars, gen, sealGo, sealWait, sealCall>>
    /\ UNCHANGED <<coreVars, loopUuid, loopManual, stopClosed, doneClosed,
                   lockHolder, lostCh, uuidCtr>>

\* lock.Unlock(): give up leadership, then continue, sleep or return; the
\* backend closes the leader_lost channel of the lock it releases, or leaves
\* it to be closed later
RunStandbyUnlockLost(n, g, closes) ==
    /\ n \in nodes
    /\ loopPc[n][g] \in {"unlock", "unlockContinue", "unlockReturn"}
    /\ lockHolder' = IF lockHolder = loopUuid[n][g] THEN 0 ELSE lockHolder
    /\ loopPc' = [loopPc EXCEPT ![n][g] =
                    IF @ = "unlockReturn" THEN "exit"
                    ELSE IF @ = "unlock" /\ loopManual[n][g] THEN "sleep" ELSE "top"]
    /\ loopUuid' = [loopUuid EXCEPT ![n][g] = 0]
    /\ loopManual' = [loopManual EXCEPT ![n][g] = FALSE]
    /\ lostCh' = IF closes THEN lostCh \cup {loopUuid[n][g]} ELSE lostCh
    /\ last' = Internal
    /\ UNCHANGED <<configVars, life, lookupCall, readLock, upgrade, leaderVars, poisonPill,
                 unlockVars, gen, sealGo, sealWait, sealCall>>
    /\ UNCHANGED <<sweep, coreVars, stateLock, stopClosed, doneClosed,
                   shutdownGo, uuidCtr, adverts>>

\* a step of cleanLeaderPrefix(u, leaderLostCh): the list of core/leader, then
\* for the first key left either the delay elapses, and the key is deleted
\* unless it is u, or leaderLostCh is closed and the goroutine returns
CleanLeaderPrefix(u) ==
    /\ u \in Uuid
    /\ sweep[u].pc \in {"started", "listed"}
    /\ LET n == sweep[u].node
           k == CHOOSE k \in sweep[u].keys : \A j \in sweep[u].keys : k <= j
       IN IF sweep[u].pc = "started"
          THEN LET listed == IF barrierSealed[n] THEN {} ELSE {a[1] : a \in adverts}
               IN /\ sweep' = [sweep EXCEPT ![u].pc = IF listed = {} THEN "done" ELSE "listed",
                                            ![u].keys = listed]
                  /\ UNCHANGED adverts
          ELSE IF u \in lostCh
          THEN /\ sweep' = [sweep EXCEPT ![u].pc = "done", ![u].keys = {}]
               /\ UNCHANGED adverts
          ELSE /\ sweep' = [sweep EXCEPT ![u].pc = IF sweep[u].keys = {k} THEN "done" ELSE "listed",
                                         ![u].keys = @ \ {k},
                                         ![u].deleted = IF k # u /\ ~barrierSealed[n] THEN k ELSE @]
               /\ adverts' = IF k # u /\ ~barrierSealed[n] THEN {a \in adverts : a[1] # k} ELSE adverts
    /\ last' = Internal
    /\ UNCHANGED <<configVars, life, lookupCall, readLock, upgrade, leaderVars, poisonPill,
                 unlockVars, gen, sealGo, sealWait, sealCall>>
    /\ UNCHANGED <<coreVars, stateLock, loopPc, loopUuid, loopManual, stopClosed, doneClosed,
                   shutdownGo, lockHolder, lostCh, uuidCtr>>

\* the fleet whose leaders sweep core/leader and step down on request
NextSweep ==
    \/ \E n \in Node, key \in keys : Unseal(n, key)
    \/ \E n \in Node : StepDown(n, RootRequest)
    \/ \E n \in Node, g \in Gen, uuidOK \in BOOLEAN : RunStandbyTop(n, g, uuidOK)
    \/ \E n \in Node, g \in Gen, stop \in BOOLEAN : AcquireLock(n, g, stop)
    \/ \E n \in Node, g \in Gen, out \in {"ok", "keyUpgrades", "cluster", "advertise"} :
          RunStandbySetupSweep(n, g, out)
    \/ \E n \in Node, g \in Gen, ok \in BOOLEAN : RunStandbyPostUnseal(n, g, ok)
    \/ \E n \in Node, g \in Gen : RunStandbySelect(n, g)
    \/ \E n \in Node, g \in Gen, lost \in BOOLEAN : RunStandbyWait(n, g, lost)
    \/ \E n \in Node, g \in Gen : RunStandbyClearLeader(n, g)
    \/ \E n \in Node, g \in Gen : RunStandbyPreSeal(n, g)
    \/ \E n \in Node, g \in Gen, closes \in BOOLEAN : RunStandbyUnlockLost(n, g, closes)
    \/ \E n \in Node, g \in Gen : RunStandbySleep(n, g)
    \/ \E n \in Node, g \in Gen : RunStandbyReturn(n, g)
    \/ \E u \in Uuid : LeaderLost(u)
    \/ \E u \in Uuid : CleanLeaderPrefix(u)

SpecSweep == InitFleet /\ [][NextSweep]_vars

\* ------------------------------------------------------------------ claims

\* the standby loop of n whose attempt holds, or held, the HA lock
HoldsLock(n) == \E g \in Gen : loopUuid[n][g] # 0 /\ lockHolder = loopUuid[n][g]

LostLock(n) == \E g \in Gen : loopUuid[n][g] # 0 /\ loopUuid[n][g] \in lostCh

\* C1 as stated: at most one core of the fleet reports is_leader, also
\* between leader_lost and the end of the old holder's step-down
C1_SingleLeader == Cardinality({n \in nodes : IsLeader(n)}) <= 1

\* C1: a core that reports is_leader holds the HA lock or has been signalled
\* leader_lost and has not finished its step-down; so two cores report
\* is_leader together only while one of them is in that interval
C1_LeaderHoldsLockOrLost ==
    /\ \A n \in nodes : IsLeader(n) => HoldsLock(n) \/ LostLock(n)
    /\ \A a, b \in nodes : (a # b /\ IsLeader(a) /\ IsLeader(b)) => LostLock(a) \/ LostLock(b)

\* two cores report is_leader: one lost the lock and still steps down, the
\* other holds it
C1_Witness ==
    \E a, b \in nodes : a # b /\ IsLeader(a) /\ IsLeader(b) /\ LostLock(a) /\ HoldsLock(b)

\* C2 as stated: whenever the state lock is not write-held, sealed implies standby
C2_SealedImpliesStandby ==
    \A n \in nodes : stateLock[n] = Free => (sealed[n] => standby[n])

C4_DuplicateShare ==
    [][\A n \in nodes :
         (last'.op = "Unseal" /\ last'.node = n /\ sealed[n] /\ stateLock[n] = Free
            /\ last'.key \in Range(unlockInfo[n].Parts))
         => /\ unlockInfo'[n] = unlockInfo[n]
            /\ ~last'.unsealed /\ last'.err = "nil"
            /\ last'.recon = "none" /\ last'.mk = NoKey
            /\ sealed'[n] /\ barrierSealed'[n] = barrierSealed[n]]_vars

\* the first of two parts held was submitted again
C4_Witness ==
    \E n \in nodes :
        /\ last.op = "Unseal" /\ last.node = n /\ last.before = 2
        /\ Len(unlockInfo[n].Parts) = 2
        /\ last.key = unlockInfo[n].Parts[1]
        /\ ~last.unsealed /\ last.err = "nil"

\* C5: the parts of a session are pairwise distinct, its progress is at most
\* the threshold, its nonce never changes while it exists; without a session
\* SecretProgress reports (0, "")
C5_SessionInvariant ==
    /\ [](\A n \in nodes :
            IF unlockInfo[n] = NoSession THEN SecretProgress(n) = <<0, 0>>
            ELSE /\ \A i, j \in 1..Len(unlockInfo[n].Parts) :
                        i # j => unlockInfo[n].Parts[i] # unlockInfo[n].Parts[j]
                 /\ SecretProgress(n)[1] = Len(unlockInfo[n].Parts)
                 /\ SecretProgress(n)[1] <= sealConfig.secret_threshold
                 /\ SecretProgress(n)[2] = unlockInfo[n].Nonce
                 /\ unlockInfo[n].Nonce # 0)
    /\ [][\A n \in nodes :
            (unlockInfo[n] # NoSession /\ unlockInfo'[n] # NoSession)
            => unlockInfo'[n].Nonce = unlockInfo[n].Nonce]_vars

\* the second session of a core holds two parts
C5_Witness ==
    \E n \in nodes : unlockInfo[n] # NoSession /\ unlockInfo[n].Nonce = 2
                     /\ Len(unlockInfo[n].Parts) = 2

\* C6: Unseal reconstructs exactly when the distinct shares held reach the
\* threshold; threshold valid shares give the master key and the barrier
\* takes it; fewer leave the core sealed; threshold 1 copies the share
C6_Reconstruction ==
    [][\A n \in nodes :
         (last'.op = "Unseal" /\ last'.node = n /\ sealed[n] /\ stateLock[n] = Free
            /\ last'.err \notin {"NotInit", "uuid"}
            /\ Len(last'.key) >= KeyLenMin /\ Len(last'.key) <= KeyLenMax + ShareOverhead)
         => LET held == Range(unlockInfo[n].Parts) \cup {last'.key}
                thr == sealConfig.secret_threshold
            IN /\ (last'.recon # "none") <=>
                     (Cardinality(held) = thr /\ last'.key \notin Range(unlockInfo[n].Parts))
               /\ (Cardinality(held) = thr /\ last'.recon # "none"
                     /\ held \subseteq ValidShares(sealConfig))
                  => /\ last'.mk = MasterKey
                     /\ last'.err \in {"nil", "cluster", "postUnseal"}
                     /\ last'.err = "nil" => (last'.unsealed /\ ~sealed'[n] /\ ~barrierSealed'[n])
               /\ Cardinality(held) < thr
                  => (last'.recon = "none" /\ last'.mk = NoKey /\ ~last'.unsealed
                      /\ sealed'[n] /\ barrierSealed'[n] = barrierSealed[n])
               /\ thr = 1 => (last'.recon = "copy" /\ last'.mk = last'.key)
               /\ thr > 1 => last'.recon \in {"none", "combine"}]_vars

\* three valid shares of a three-of-three split were combined to the master
\* key and unsealed the core
C6_Witness ==
    \E n \in nodes :
        /\ last.op = "Unseal" /\ last.node = n /\ last.before = 2
        /\ sealConfig.secret_threshold = 3
        /\ last.recon = "combine" /\ last.mk = MasterKey
        /\ last.unsealed /\ ~sealed[n] /\ ~barrierSealed[n]

\* C7 as stated: an Unseal that reconstructed the key and succeeded leaves
\* sealed = false and standby = false without HA, standby = true with HA;
\* an unsealed core has no unlock session
C7_UnsealedState ==
    /\ \A n \in nodes :
          (last.op = "Unseal" /\ last.node = n /\ last.unsealed /\ last.recon # "none")
          => (~sealed[n] /\ standby[n] = ha /\ unlockInfo[n] = NoSession)
    /\ \A n \in nodes : ~sealed[n] => unlockInfo[n] = NoSession

\* C8: the Unseal that reached the threshold zeroed every part the session
\* held and dropped the session; the master key buffer is zeroed when
\* unsealInternal returns
C8_Zeroization ==
    \A n \in nodes :
        (last.op = "Unseal" /\ last.node = n /\ last.recon # "none")
        => /\ Len(last.bufs) = sealConfig.secret_threshold
           /\ \A i \in 1..Len(last.bufs) : IsZero(last.bufs[i])
           /\ IsZero(last.keyBuf) /\ Len(last.keyBuf) = Len(last.key)
           /\ unlockInfo[n] = NoSession
           /\ last.mk # NoKey => (Len(last.mkBuf) = Len(last.mk) /\ IsZero(last.mkBuf))

\* a successful unseal from two shares left two zeroed part buffers
C8_Witness ==
    \E n \in nodes :
        /\ last.op = "Unseal" /\ last.node = n /\ last.unsealed /\ last.recon = "combine"
        /\ Len(last.bufs) = 2 /\ last.key # memzero(last.key)
        /\ Len(last.mkBuf) = 1

\* C9 as stated: an Unseal whose reconstruction failed or whose key the
\* barrier rejected returns an error and leaves the core sealed and standby,
\* with no unlock session
C9_FailedUnseal ==
    \A n \in nodes :
        (last.op = "Unseal" /\ last.node = n /\ last.recon # "none"
           /\ last.err \in {"combine", "InvalidKey"})
        => (~last.unsealed /\ sealed[n] /\ standby[n] /\ unlockInfo[n] = NoSession)

\* C10: ResetUnsealProcess on a sealed core drops the session and changes
\* nothing else; on an unsealed core it changes nothing
C10_ResetFrame ==
    [][\A n \in nodes :
         (last'.op = "ResetUnsealProcess" /\ last'.node = n)
         => /\ unlockInfo'[n] = IF sealed[n] THEN NoSession ELSE unlockInfo[n]
            /\ sealed[n] => (unlockInfo'[n].Parts = <<>> /\ unlockInfo'[n].Nonce = 0)
            /\ \A m \in Node \ {n} : unlockInfo'[m] = unlockInfo[m]
            /\ UNCHANGED <<configVars, stepVars, leaderVars, poisonPill, nonceCtr, coreVars, stateLock, loopVars, sealVars,
                           backendVars>>]_vars

\* a reset dropped a session that held two parts
C10_Witness ==
    \E n \in nodes :
        /\ last.op = "ResetUnsealProcess" /\ last.node = n /\ last.before = 2
        /\ sealed[n] /\ SecretProgress(n) = <<0, 0>>

\* C11: an Unseal rejected for the length of the share (InvalidKey) or for
\* the missing seal configuration (NotInit), and an Unseal on an unsealed
\* core (true, nil), change no state
C11_RejectedUnseal ==
    [][\A n \in nodes :
         (last'.op = "Unseal" /\ last'.node = n)
         => LET len == Len(last'.key)
                badLen == len < KeyLenMin \/ len > KeyLenMax + ShareOverhead
                frame == UNCHANGED <<configVars, stepVars, leaderVars, poisonPill, unlockVars, coreVars, stateLock, loopVars,
                                     sealVars, backendVars>>
            IN /\ badLen => (last'.err = "InvalidKey" /\ ~last'.unsealed /\ frame)
               /\ (~badLen /\ sealConfig = NoConfig)
                  => (last'.err = "NotInit" /\ ~last'.unsealed /\ frame)
               /\ (~badLen /\ sealConfig # NoConfig /\ ~sealed[n])
                  => (last'.err = "nil" /\ last'.unsealed /\ frame)
               /\ last'.err = "NotInit" => sealConfig = NoConfig
               /\ (last'.err = "InvalidKey" /\ last'.recon = "none") => badLen]_vars

\* a share that is too long was rejected while a session held a part
C11_Witness ==
    \E n \in nodes :
        /\ last.op = "Unseal" /\ last.node = n /\ last.err = "InvalidKey"
        /\ Len(last.key) > KeyLenMax + ShareOverhead
        /\ sealed[n] /\ standby[n] /\ Len(unlockInfo[n].Parts) = 1

\* every variable but the record of the last call
Frame == UNCHANGED <<configVars, stepVars, leaderVars, poisonPill, unlockVars, coreVars, stateLock, loopVars, sealVars, backendVars>>

\* C12: a Seal on an unsealed core cancels the request scope and starts the
\* seal only when the request is not nil, the token was resolved, the audit
\* log took the request, the token use succeeded and the ACL allows the
\* operation with root privileges; otherwise it returns an error and changes
\* neither sealed nor standby nor the request scope
C12_SealAuthorized ==
    [][\A n \in nodes :
         (last'.op = "Seal" /\ last'.node = n /\ ~sealed[n])
         => LET a == last'.auth
                passed == /\ a.req /\ subsystemsUp[n] /\ a.token = "ok" /\ a.audit = "ok"
                          /\ a.use = "ok" /\ a.acl = "root"
            IN /\ last'.sent <=> passed
               /\ last'.sent <=> (sealGo'[n] = sealGo[n] + 1)
               /\ last'.sent => /\ last'.err = "nil"
                                /\ requestContext'[n] = Cancel(requestContext[n])
               /\ ~last'.sent => (last'.err # "nil" /\ Frame)
               /\ UNCHANGED <<sealed, standby>>]_vars

\* an authorized Seal cancelled the live request scope and started the seal
C12_Witness ==
    \E n \in nodes :
        /\ last.op = "Seal" /\ last.node = n /\ last.sent /\ last.auth = RootRequest
        /\ requestContext[n] = "cancelled" /\ sealGo[n] = 1 /\ ~sealed[n]

\* C13 as stated: every Seal on an unsealed standby returns the error that
\* tells the operator to restart, and changes nothing
C13_StandbySealRefused ==
    [][\A n \in nodes :
         (last'.op = "Seal" /\ last'.node = n /\ ~sealed[n] /\ standby[n])
         => (last'.err = "standby" /\ ~last'.sent /\ Frame)]_vars

\* C13: a Seal on an unsealed standby changes nothing and returns an error:
\* "nil request to seal" for a nil request, for every other request the one
\* that tells the operator to restart
C13_StandbySealRefusedRequest ==
    [][\A n \in nodes :
         (last'.op = "Seal" /\ last'.node = n /\ ~sealed[n] /\ standby[n])
         => /\ last'.err = (IF last'.auth.req THEN "standby" ELSE "nilRequest")
            /\ ~last'.sent
            /\ Frame]_vars

\* a root request to seal was refused on a standby whose loop waits for the lock
C13_Witness ==
    \E n \in nodes :
        /\ last.op = "Seal" /\ last.node = n /\ last.err = "standby" /\ last.auth = RootRequest
        /\ ~sealed[n] /\ standby[n] /\ loopPc[n][gen[n]] = "acquire"

\* C15: Seal on a sealed core returns nil whatever the token is and changes
\* nothing; sealInternal on a sealed core returns without a second pre-seal
\* and without touching the barrier
C15_SealSealed ==
    [][\A n \in nodes :
         /\ (last'.op = "Seal" /\ last'.node = n /\ sealed[n])
            => (last'.err = "nil" /\ ~last'.sent /\ Frame)
         /\ (sealGo'[n] < sealGo[n] /\ sealed[n])
            => UNCHANGED <<configVars, stepVars, leaderVars, poisonPill, unlockVars, coreVars, stateLock, loopVars, sealWait,
                           shutdownGo, backendVars>>]_vars

\* a Seal whose token does not resolve returned nil on a sealed core
C15_Witness ==
    \E n \in nodes :
        /\ last.op = "Seal" /\ last.node = n /\ last.err = "nil" /\ last.auth.token = "err"
        /\ sealed[n] /\ gen[n] > 0

\* C16 as stated: an authorized StepDown on the active node, no step-down
\* queued, is delivered to the standby loop
C16_StepDownDelivered ==
    [][\A n \in nodes :
         (/\ last'.op = "StepDown" /\ last'.node = n /\ last'.auth = RootRequest
          /\ last'.err = "nil"
          /\ ha /\ ~sealed[n] /\ ~standby[n]
          /\ \A g \in Gen : ~loopManual[n][g])
         => last'.sent]_vars

\* C17 as stated, its first step: an authorized StepDown on the active node
\* makes the loop leave its select for a manual step-down, the one that
\* sleeps before it contends again
C17_StepDownManual ==
    [][\A n \in nodes :
         (/\ last'.op = "StepDown" /\ last'.node = n /\ last'.auth = RootRequest
          /\ ha /\ ~sealed[n] /\ ~standby[n] /\ subsystemsUp[n]
          /\ loopPc[n][gen[n]] \in {"select", "active"})
         => (loopPc'[n][gen[n]] = "clearLeader" /\ loopManual'[n][gen[n]])]_vars

\* C14 as stated: while an authorized Seal waits for its seal, pre-seal runs
\* only after the request scope was cancelled and the barrier is sealed only
\* after pre-seal; when the call returns Sealed() is true, and token
\* lookups and Leader() answer with the Sealed error
C14_SealOrder ==
    [][\A n \in nodes :
         sealCall[n]
         => /\ (subsystemsUp[n] /\ ~subsystemsUp'[n]) => requestContext[n] # "live"
            /\ (~barrierSealed[n] /\ barrierSealed'[n]) => ~subsystemsUp'[n]
            /\ ~sealCall'[n]
               => /\ Sealed(sealed'[n])
                  /\ LookupTokenErr(sealed'[n], standby'[n]) = "ErrSealed"
                  /\ LeaderErr(sealed'[n], ha) = "ErrSealed"]_vars

\* C18 as stated: Leader answers the Sealed error on a sealed core,
\* HANotEnabled without HA, (true, its own address) on the active node; on
\* a standby is_leader is false, the address is empty when the lock is not
\* held and it is the address of the advertisement of the uuid that holds
\* the lock when that advertisement is stored
C18_LeaderResult ==
    [][\A n \in nodes :
         (last'.op = "Leader" /\ last'.node = n)
         => /\ sealed[n] => last'.err = "ErrSealed"
            /\ (~sealed[n] /\ ~ha) => last'.err = "ErrHANotEnabled"
            /\ (~sealed[n] /\ ha /\ ~standby[n])
               => (last'.leader /\ last'.addr = n /\ last'.err = "nil")
            /\ (~sealed[n] /\ ha /\ standby[n] /\ last'.err = "nil")
               => /\ ~last'.leader
                  /\ last'.uuid = 0 => last'.addr = ""
                  /\ \A m \in Node : <<last'.uuid, m>> \in adverts => last'.addr = m]_vars

\* all standby loops of n, and with them their periodic workers, have returned
LoopsStopped(n) == \A g \in Gen : loopPc[n][g] \in {"idle", "done"}

\* C19 as stated: a tick on a standby that reads the poison pill starts the
\* shutdown and skips the key-upgrade walk, a tick on the active node reads
\* neither; after the tick started the shutdown the node is eventually
\* sealed with its standby loops and their workers stopped
C19_PoisonPill ==
    /\ [][\A n \in nodes :
            (last'.op = "KeyUpgradeTick" /\ last'.node = n)
            => /\ ~standby[n] => (~last'.pill /\ ~last'.walk /\ ~last'.sent)
               /\ (standby[n] /\ poisonPill /\ ~barrierSealed[n])
                  => (last'.sent /\ ~last'.walk /\ shutdownGo'[n] = shutdownGo[n] + 1)]_vars
    /\ \A n \in Node :
         (last.op = "KeyUpgradeTick" /\ last.node = n /\ last.sent)
         ~> (sealed[n] /\ LoopsStopped(n))

\* the backend closed leader_lost for the lock that loop g of n won, and the
\* loop runs post-unseal or is active
LostActive(n, g) ==
    /\ loopUuid[n][g] # 0 /\ loopUuid[n][g] \in lostCh
    /\ loopPc[n][g] \in {"postUnseal", "select", "active"}

\* C20: when leader_lost fires for the lock of an active node, post-unseal
\* still running included, its loop eventually is back at the top of the
\* loop to contend again; on the way from the select it cancels the request
\* scope, then sets standby = true and runs pre-seal, then releases the lock
C20_LeaderLost ==
    /\ \A n \in Node, g \in Gen :
         LostActive(n, g) ~> (loopPc[n][g] = "top" /\ loopUuid[n][g] = 0)
    /\ [][\A n \in nodes, g \in Gen :
            loopPc'[n][g] # loopPc[n][g]
            => /\ loopPc[n][g] = "select" => loopPc'[n][g] = "active"
               /\ loopPc[n][g] = "active" => loopPc'[n][g] = "clearLeader"
               /\ loopPc[n][g] = "clearLeader"
                  => (loopPc'[n][g] = "preSeal" /\ requestContext'[n] # "live")
               /\ loopPc[n][g] = "preSeal"
                  => (loopPc'[n][g] = "unlock" /\ standby'[n] /\ ~subsystemsUp'[n])
               /\ loopPc[n][g] \in {"unlock", "unlockContinue"}
                  => /\ lockHolder' # loopUuid[n][g]
                     /\ loopPc'[n][g] = (IF loopManual[n][g] THEN "sleep" ELSE "top")
               /\ loopPc[n][g] = "sleep" => loopPc'[n][g] = "top"]_vars

\* leader_lost fired while post-unseal runs
C20_Witness ==
    \E n \in nodes, g \in Gen :
        /\ loopPc[n][g] = "postUnseal" /\ loopUuid[n][g] \in lostCh /\ lockHolder = 0
        /\ standby[n] /\ ~sealed[n]

\* the Unseal recorded in last stored its key as a new part of a session that
\* is still open: partial progress, which a later call may complete
StoredPart(n) ==
    /\ last.op = "Unseal" /\ last.node = n /\ last.err = "nil" /\ ~last.unsealed
    /\ last.recon = "none"
    /\ Len(unlockInfo[n].Parts) = last.before + 1

\* C23 as stated: when Unseal returns, the key buffer it was given is zeroed,
\* whatever the outcome: the threshold was reached, the share duplicates a
\* part already held, the share was rejected; a share stored as partial
\* progress is zeroed by the call that completes the session
C23_KeyZeroed ==
    \A n \in nodes :
        (last.op = "Unseal" /\ last.node = n /\ ~StoredPart(n))
        => (IsZero(last.keyBuf) /\ Len(last.keyBuf) = Len(last.key))

\* C26: without an HA backend, when setupCluster or postUnseal fails after the
\* barrier accepted the master key, the barrier is sealed again, Unseal
\* returns the error, the core stays sealed and standby with no unlock
\* session, and after a post-unseal failure pre-seal has run: no subsystem is
\* up
C26_UnsealSetupFailure ==
    \A n \in nodes :
        (last.op = "Unseal" /\ last.node = n /\ last.err \in {"cluster", "postUnseal"})
        => /\ ~ha /\ last.mk # NoKey /\ ~last.unsealed
           /\ barrierSealed[n] /\ sealed[n] /\ standby[n]
           /\ unlockInfo[n] = NoSession
           /\ IsZero(last.mkBuf)
           /\ last.err = "postUnseal" => ~subsystemsUp[n]

\* post-unseal failed in the Unseal that completed a session of two shares
C26_Witness ==
    \E n \in nodes :
        /\ last.op = "Unseal" /\ last.node = n /\ last.err = "postUnseal"
        /\ last.before = 1 /\ last.recon = "combine"
        /\ barrierSealed[n] /\ sealed[n]

\* the leader advertisement that loop g of n wrote for its lock
Advert(n, g) == <<loopUuid[n][g], n>>

\* C28 as stated: a loop that leaves the active state cancels the request
\* scope, runs pre-seal under standby = true, then deletes its leader
\* advertisement, then releases the backend lock, sleeps only after a manual
\* step-down and is back at the top of the loop
C28_StepDownOrder ==
    [][\A n \in nodes, g \in Gen :
         /\ (loopPc[n][g] \in {"clearLeader", "preSeal", "unlock"}
               /\ Advert(n, g) \in adverts /\ Advert(n, g) \notin adverts')
            => (requestContext[n] # "live" /\ standby[n] /\ ~subsystemsUp[n]
                  /\ lockHolder' = lockHolder)
         /\ (loopPc[n][g] = "preSeal" /\ loopPc'[n][g] # "preSeal")
            => (requestContext[n] # "live" /\ standby'[n] /\ ~subsystemsUp'[n])
         /\ (loopPc[n][g] = "unlock" /\ loopPc'[n][g] # "unlock")
            => /\ lockHolder' # loopUuid[n][g]
               /\ loopPc'[n][g] = (IF loopManual[n][g] THEN "sleep" ELSE "top")
         /\ (loopPc[n][g] = "sleep" /\ loopPc'[n][g] # "sleep") => loopPc'[n][g] = "top"]_vars

\* C29 as stated: when a loop releases the backend lock it acquired, its
\* leader advertisement is deleted already and standby = true, also when the
\* leadership setup failed after the advertisement was written
C29_ReleaseClean ==
    [][\A n \in nodes, g \in Gen :
         (lockHolder = loopUuid[n][g] /\ lockHolder # 0 /\ lockHolder' # lockHolder
            /\ loopPc[n][g] \in {"unlock", "unlockContinue", "unlockReturn"})
         => (Advert(n, g) \notin adverts /\ standby[n])]_vars

PostUnsealStep(n) ==
    \/ \E g \in Gen : loopPc[n][g] = "postUnseal" /\ loopPc'[n][g] # "postUnseal"
    \/ /\ ~ha /\ last'.op = "Unseal" /\ last'.node = n /\ last'.mk # NoKey
       /\ last'.err \in {"nil", "postUnseal"} /\ sealed[n]
       /\ <<sealed, subsystemsUp, last>>' # <<sealed, subsystemsUp, last>>

\* C27 as stated: on one node activations never overlap: once postUnseal has
\* succeeded it does not run again before preSeal has torn that activation
\* down, whatever the interleaving of Unseal, Seal, Shutdown, StepDown, leader
\* loss and the standby loops
C27_NoOverlap ==
    [][\A n \in nodes : PostUnsealStep(n) => ~subsystemsUp[n]]_vars

\* the sealInternal of a Shutdown returns on n in this step: without an HA
\* backend in the step that seals, with one after the wait for the loop
ShutdownReturn(n) ==
    \/ ~ha /\ ~sealed[n] /\ sealGo'[n] < sealGo[n]
    \/ sealWait'[n] # sealWait[n] /\ sealWait'[n] \subseteq sealWait[n]

\* C22 as stated: Shutdown on an unsealed core, with or without an HA backend,
\* standby or active, asks for no authorization and cancels the request
\* scope; when it returns sealed = true, the barrier is sealed and the
\* done channel of the standby loop it waited for is closed
C22_Shutdown ==
    [][\A n \in nodes :
         /\ (~sealed[n] /\ sealGo[n] = 0 /\ sealGo'[n] = 1) => requestContext'[n] # "live"
         /\ ShutdownReturn(n)
            => /\ sealed'[n] /\ barrierSealed'[n]
               /\ \A g \in sealWait[n] \ sealWait'[n] : doneClosed'[n][g]]_vars

\* the position of x in the sequence s (0: x is not in s)
Pos(s, x) == IF \E i \in 1..Len(s) : s[i] = x THEN CHOOSE i \in 1..Len(s) : s[i] = x ELSE 0

\* the number of times x is in the sequence s
Count(s, x) == Cardinality({i \in 1..Len(s) : s[i] = x})

\* the steps of the last postUnseal that completed and have a teardown step
Completed ==
    LET done == IF life.err = "nil" THEN life.post ELSE SubSeq(life.post, 1, Len(life.post) - 1)
    IN Filter(done, DOMAIN Teardown)

\* C21 as stated: when an activation has ended, by a preSeal call or by the
\* failure of its postUnseal, the teardown step of every post-unseal step
\* that completed was invoked exactly once, and the teardown steps ran in the
\* reverse of the order of their post-unseal steps
C21_ReverseTeardown ==
    (life.preCalls >= 1)
    => /\ \A i \in 1..Len(Completed) : Count(life.pre, Teardown[Completed[i]]) = 1
       /\ \A i, j \in 1..Len(Completed) :
            i < j => Pos(life.pre, Teardown[Completed[i]]) > Pos(life.pre, Teardown[Completed[j]])

\* C24: postUnseal invokes its steps in the fixed order, the cluster listener
\* only with an HA backend; the first step that fails is the last one
\* invoked, preSeal runs and the error is returned; the request context is
\* made only when every step succeeded
C24_PostUnsealOrder ==
    [][\A n \in nodes :
         life'.op = "postUnseal"
         => LET order == <<"clearForwardingClients", "Purge", "SetBarrierConfig",
                           "enterprisePostUnseal", "ensureWrappingKey", "setupPluginCatalog",
                           "loadMounts", "setupMounts", "setupPolicyStore", "loadCORSConfig",
                           "loadCredentials", "setupCredentials", "startRollback",
                           "setupExpiration", "loadAudits", "setupAudits",
                           "setupAuditedHeadersConfig", "startClusterListener", "emitMetrics">>
                claimed == IF ha THEN order ELSE Filter(order, Range(order) \ {"startClusterListener"})
                k == Len(life'.post)
            IN /\ k \in 1..Len(claimed) /\ life'.post = SubSeq(claimed, 1, k)
               /\ life'.err = "nil"
                  => /\ k = Len(claimed) /\ life'.pre = <<>> /\ life'.preCalls = 0
                     /\ requestContext'[n] = "live" /\ subsystemsUp'[n]
               /\ life'.err # "nil"
                  => /\ life'.post[k] = life'.err /\ k < Len(claimed)
                     /\ life'.preCalls = 1 /\ Len(life'.pre) = Len(PreSealSteps)
                     /\ requestContext'[n] = requestContext[n] /\ ~subsystemsUp'[n]]_vars

\* setupExpiration failed in the postUnseal of a core with an HA backend whose
\* request context an earlier activation had left cancelled
C24_Witness ==
    \E n \in nodes :
        /\ ha /\ life.op = "postUnseal" /\ life.err = "setupExpiration"
        /\ Len(life.post) = 14 /\ life.preCalls = 1 /\ requestContext[n] = "cancelled"

\* C25: preSeal invokes every teardown step in the fixed order whichever of
\* them fail and returns the failures of all of them; afterwards no rekey
\* progress is held, c.metricsCh is nil and the channel it pointed to was
\* closed once and never twice
C25_PreSealAll ==
    [][life'.op = "preSeal"
       => LET claimed == <<"clearRekey", "closeMetrics", "stopClusterListener", "teardownAudits",
                           "stopExpiration", "teardownCredentials", "teardownPolicyStore",
                           "stopRollback", "unloadMounts", "enterprisePreSeal", "Purge">>
          IN /\ life'.pre = life.pre \o claimed
             /\ life'.errs = Filter(claimed, life'.fails)
             /\ Len(life'.errs) = Cardinality(life'.fails)
             /\ life'.rekey = NoRekey
             /\ life'.metricsCh = "nil"
             /\ life'.closes = IF life.metricsCh = "open" THEN 1 ELSE life.closes
             /\ life'.closes <= 1]_vars

\* a second preSeal after a successful postUnseal, with two failing steps,
\* while a recovery rekey had been started in between
C25_Witness ==
    /\ life.op = "preSeal" /\ life.preCalls = 2 /\ life.err = "nil"
    /\ life.fails = {"teardownAudits", "stopRollback"} /\ Len(life.errs) = 2
    /\ life.closes = 1 /\ Len(life.pre) = 2 * Len(PreSealSteps)

\* C31: every attempt of the loop takes a uuid no earlier attempt, lock
\* holder or advertisement has; acquireLock tries again after every error of
\* the backend and ends only with the lock or on the stop signal; a loop that
\* sees the stop signal at the top of the loop or whose acquireLock ends on
\* it returns without post-unseal and leaves standby as it is
C31_AcquireLock ==
    [][\A n \in nodes, g \in Gen :
         loopPc'[n][g] # loopPc[n][g]
         => /\ loopPc[n][g] = "top"
               => /\ loopPc'[n][g] \in {"acquire", "exit"}
                  /\ stopClosed[n][g] => loopPc'[n][g] = "exit"
                  /\ loopPc'[n][g] = "acquire"
                     => /\ loopUuid'[n][g] > uuidCtr /\ loopUuid'[n][g] = uuidCtr'
                        /\ \A m \in Node, h \in Gen : loopUuid[m][h] # loopUuid'[n][g]
                        /\ \A m \in Node : <<loopUuid'[n][g], m>> \notin adverts
                        /\ lockHolder # loopUuid'[n][g] /\ loopUuid'[n][g] \notin lostCh
            /\ loopPc[n][g] = "acquire"
               => /\ loopPc'[n][g] \in {"acquired", "retryWait", "exit"}
                  /\ loopPc'[n][g] = "acquired" => (lockHolder = 0 /\ lockHolder' = loopUuid[n][g])
                  /\ loopPc'[n][g] = "exit" => stopClosed[n][g]
                  /\ loopPc'[n][g] # "acquired" => lockHolder' = lockHolder
            /\ loopPc[n][g] = "retryWait"
               => /\ loopPc'[n][g] \in {"acquire", "exit"}
                  /\ loopPc'[n][g] = "exit" => stopClosed[n][g]
                  /\ lockHolder' = lockHolder
            /\ (loopPc[n][g] \in {"top", "acquire", "retryWait"} /\ loopPc'[n][g] = "exit")
               => UNCHANGED <<coreVars, stepVars, backendVars>>
            /\ loopPc[n][g] = "exit"
               => (loopPc'[n][g] = "done" /\ UNCHANGED <<coreVars, stepVars, backendVars>>)
            /\ loopPc[n][g] = "done" => FALSE]_vars

\* the stop signal ended the wait between two attempts: the loop returned and
\* the core is sealed and standby
C31_Witness ==
    \E n \in nodes, g \in Gen :
        /\ loopPc[n][g] = "done" /\ stopClosed[n][g] /\ loopUuid[n][g] = 2 /\ lockHolder = 0
        /\ sealed[n] /\ standby[n] /\ ~subsystemsUp[n] /\ last = Internal

\* C39: pathLookupGroupUpdate answers an empty type with the error response
\* "empty type", type id with an empty id with "empty ID", type name with an
\* empty name with "empty name" and every other type with the error response
\* "unrecognized type" naming the type, each with a nil error; no request
\* reaches the return after the switch
C39_LookupGroup ==
    lookupCall.called
    => LET c == lookupCall
       IN /\ c.type = "" => (c.resp = ErrorResponse("empty type", "") /\ c.err = Nil)
          /\ (c.type = "id" /\ c.id = "") => (c.resp = ErrorResponse("empty ID", "") /\ c.err = Nil)
          /\ (c.type = "name" /\ c.name = "") => (c.resp = ErrorResponse("empty name", "") /\ c.err = Nil)
          /\ c.type \notin {"", "id", "name"}
             => (c.resp = ErrorResponse("unrecognized type %q", c.type) /\ c.err = Nil /\ c.site = "default")
          /\ c.site # "fallthrough"
          /\ (c.resp = Nil /\ c.err = Nil) => (c.site \in {"byID", "byName"} /\ c.read = "nil")

\* a type of the wrong case was answered by the default case
C39_Witness ==
    /\ lookupCall.called /\ lookupCall.type = "ID" /\ lookupCall.id = "g1"
    /\ lookupCall.resp.kind = "errorResponse" /\ lookupCall.resp.arg = "ID"

\* C40: sealInitCommon, entered with the read lock of its caller, releases it
\* exactly once on every return path: nil request, failed token lookup,
\* refusal on a standby, audit failure, token-use failure, revoked token,
\* permission denied, and on the path that seals before the goroutine takes
\* the write lock
C40_ReadUnlock ==
    readLock.site # "none"
    => /\ Count(readLock.ops, "RLock") = 1
       /\ Count(readLock.ops, "RUnlock") = 1
       /\ readLock.ops[1] = "RLock"
       /\ \A i, j \in 1..Len(readLock.ops) :
             (readLock.ops[i] = "RUnlock" /\ readLock.ops[j] \in {"go", "Lock"}) => i < j
       /\ readLock.site = "seal" <=> Count(readLock.ops, "Lock") = 1
       /\ (last.op = "Seal" /\ readLock.site # "sealed") => last.err = readLock.err

\* a standby whose token store is down refused the request
C40_Witness ==
    /\ readLock.site = "standby" /\ readLock.ops = <<"RLock", "RUnlock">>
    /\ \E n \in nodes : ~sealed[n] /\ standby[n] /\ ~subsystemsUp[n]

\* C37 as stated: a core that reports sealed = false has an unsealed barrier,
\* also when an Unseal is issued while sealInternal has set sealed = true and
\* released the state lock
C37_SealedBarrier ==
    \A n \in nodes : ~sealed[n] => ~barrierSealed[n]

\* C38: on every return of the standby loop the done channel is closed only
\* when the key-upgrade worker and then the leader-refresh worker have received
\* their stop signal and closed their done channels, and a seal that waited on
\* a done channel seals the barrier only when the loop of that channel has
\* returned in this way
C38_WorkersJoined ==
    [][\A n \in nodes :
         /\ \A g \in Gen :
              /\ (doneClosed'[n][g] /\ ~doneClosed[n][g])
                 => (loopPc[n][g] = "leaderDone" /\ loopPc'[n][g] = "done")
              /\ (loopPc'[n][g] = "waitRotate" /\ loopPc[n][g] # "waitRotate") => loopPc[n][g] = "exit"
              /\ (loopPc'[n][g] = "rotateDone" /\ loopPc[n][g] # "rotateDone") => loopPc[n][g] = "waitRotate"
              /\ (loopPc'[n][g] = "waitLeader" /\ loopPc[n][g] # "waitLeader") => loopPc[n][g] = "rotateDone"
              /\ (loopPc'[n][g] = "leaderDone" /\ loopPc[n][g] # "leaderDone") => loopPc[n][g] = "waitLeader"
              /\ (loopPc'[n][g] = "done" /\ loopPc[n][g] # "done") => loopPc[n][g] = "leaderDone"
              /\ loopPc[n][g] = "exit" => loopPc'[n][g] \in {"exit", "waitRotate"}
         /\ (ha /\ barrierSealed'[n] /\ ~barrierSealed[n])
            => \E g \in sealWait[n] :
                 /\ g \notin sealWait'[n]
                 /\ \E h \in g..gen[n] : doneClosed[n][h] /\ loopPc[n][h] = "done"]_vars

\* a seal sealed the barrier after the loop it had stopped joined its workers
C38_Witness ==
    \E n \in nodes :
        /\ ha /\ barrierSealed[n] /\ sealed[n] /\ gen[n] = 1 /\ sealWait[n] = {}
        /\ loopPc[n][1] = "done" /\ doneClosed[n][1] /\ stopClosed[n][1]

\* C33 as stated: a Leader call on a standby that returns no error and saw
\* the lock held returns the address of the node whose uuid it saw on the
\* lock, never the address cached for an earlier leader, and never an empty
\* address when the cache holds the address of that uuid
C33_LeaderAddress ==
    [][\A n \in nodes :
         (last'.op = "Leader" /\ last'.node = n /\ last'.err = "nil" /\ ~last'.leader /\ last'.uuid # 0)
         => /\ last'.addr # ""
               => \/ <<last'.uuid, last'.addr>> \in adverts
                  \/ \E g \in Gen : loopUuid[last'.addr][g] = last'.uuid
            /\ (leaderCache'[n].uuid = last'.uuid /\ leaderCache'[n].addr # "")
               => last'.addr = leaderCache'[n].addr]_vars

\* a step in which the leader cache of n is written by a Leader call that saw
\* a uuid on the lock other than the cached one, from the stored
\* advertisement of that uuid, with the barrier unsealed
CacheWrite(n) ==
    /\ last'.op = "Leader" /\ last'.node = n /\ last'.err = "nil"
    /\ last'.uuid # 0 /\ last'.uuid # leaderCache[n].uuid
    /\ ~sealed[n] /\ standby[n] /\ ~barrierSealed[n]
    /\ leaderCache'[n].uuid = last'.uuid
    /\ <<last'.uuid, leaderCache'[n].addr>> \in adverts
    /\ last'.addr = leaderCache'[n].addr

\* C32 as stated: the leader cache is written only by a Leader call that saw
\* a uuid other than the cached one, all three fields from the advertisement
\* that was read, parsed and followed by the refresh of the forwarding
\* connection; when a step fails or the lock is not held the cache is unchanged
C32_CacheFrame ==
    [][\A n \in nodes :
         leaderCache'[n] # leaderCache[n]
         => /\ CacheWrite(n)
            /\ leaderCache'[n].cluster = ClusterAddr(leaderCache'[n].addr)]_vars

\* C32 amended: as stated, but an advertisement that is not JSON is not a
\* failure: it is taken as a bare redirect address and cached with an empty
\* cluster address, without the load of the TLS configuration and the refresh
\* of the forwarding connection; a Leader call that returns an error or saw no
\* lock holder leaves the cache unchanged
C32_CacheFrameAmended ==
    [][\A n \in nodes :
         /\ leaderCache'[n] # leaderCache[n]
            => /\ CacheWrite(n)
               /\ leaderCache'[n].cluster \in {ClusterAddr(leaderCache'[n].addr), ""}
         /\ (last'.op = "Leader" /\ last'.node = n /\ (last'.err # "nil" \/ last'.uuid = 0))
            => leaderCache'[n] = leaderCache[n]]_vars

\* a Leader call on a standby wrote the uuid it saw on the lock and the two
\* addresses of its advertisement to the cache
C32_Witness ==
    \E n \in nodes :
        /\ last.op = "Leader" /\ last.node = n /\ last.err = "nil" /\ last.uuid # 0
        /\ leaderCache[n].uuid = last.uuid /\ leaderCache[n].addr = last.addr
        /\ leaderCache[n].cluster = ClusterAddr(last.addr)
        /\ standby[n] /\ ~sealed[n]

\* C34: a cleanup timer is scheduled only by a performKeyUpgrades whose walk,
\* master-key reload and keyring reload succeeded, and only when upgrade
\* entries are listed; a timer that fires deletes entries only when the
\* barrier is unsealed, and only entries of a term up to the active term
C34_UpgradeCleanup ==
    [][/\ upgrade'.timers \ upgrade.timers # {}
          => /\ upgrade'.op = "perform"
             /\ upgrade'.out \notin {"walk", "reloadMaster", "reloadKeyring", "list"}
             /\ upgrade'.term = upgrade.stored
             /\ upgrade.entries # {}
             /\ upgrade'.timers = upgrade.timers \cup {upgrade.entries}
       /\ (upgrade'.op = "perform" /\ <<upgrade.op, upgrade.out, upgrade.term>> # <<upgrade'.op, upgrade'.out, upgrade'.term>>
           /\ (upgrade'.out \in {"walk", "reloadMaster", "reloadKeyring", "list"} \/ upgrade.entries = {}))
          => upgrade'.timers = upgrade.timers
       /\ upgrade.entries \ upgrade'.entries # {}
          => /\ upgrade'.op = "cleanup"
             /\ \A n \in nodes : ~barrierSealed[n]
             /\ upgrade.entries \ upgrade'.entries \subseteq upgrade'.fired
             /\ \A t \in upgrade.entries \ upgrade'.entries : t <= upgrade.term
       /\ (upgrade'.op = "cleanup" /\ upgrade'.timers # upgrade.timers /\ \E n \in nodes : barrierSealed[n])
          => upgrade'.entries = upgrade.entries]_vars

\* a timer fired on the unsealed barrier and deleted the entry of a rotation
C34_Witness ==
    /\ upgrade.op = "cleanup" /\ upgrade.fired = {2} /\ 2 \notin upgrade.entries
    /\ upgrade.term >= 2 /\ \E n \in nodes : ~barrierSealed[n]

\* C35 as stated: a sweep never deletes the advertisement of its own uuid,
\* deletes nothing once its leader_lost channel is closed, and never deletes
\* the advertisement of the uuid that holds the lock
C35_SweepStale ==
    [][\A u \in Uuid :
         (sweep[u].pc = "listed" /\ sweep'[u] # sweep[u] /\ adverts \ adverts' # {})
         => /\ \A a \in adverts \ adverts' : a[1] # u /\ a[1] # lockHolder
            /\ u \notin lostCh]_vars

====
